---- MODULE Spec2Model ----
(***************************************************************************)
(* user-info: per-user preferences, sessions and saved searches served as  *)
(* JSON over HTTP from a relational store.                                 *)
(*                                                                         *)
(* The model has three layers:                                             *)
(*   1. JSON: texts (request bodies, stored payloads), the values Go's     *)
(*      encoding/json decodes them to, and json.Marshal;                   *)
(*   2. the envelope converters convertPrefs / convertSessions;            *)
(*   3. the record stores and the HTTP handlers, one action per store      *)
(*      call of a handler, so that concurrent requests interleave exactly  *)
(*      where the code touches the database.                               *)
(***************************************************************************)
EXTENDS Integers, Sequences, FiniteSets, Bags, TLC

(***************************************************************************)
(* Bounds of the model.                                                    *)
(***************************************************************************)
\* Number of request slots, i.e. of requests that can be in flight at once.
NumProcs == 2
\* Number of requests started in one behaviour.
MaxReqs == 2
\* Number of requests started in one behaviour of non-overlapping requests.
MaxSeqReqs == 3

\* The number of calls of BagsAPI methods made one after another.
MaxCalls == 4

(***************************************************************************)
(* HTTP status codes used by the handlers.                                 *)
(***************************************************************************)
StatusOK == 200
StatusBadRequest == 400
StatusNotFound == 404
StatusInternalServerError == 500

(***************************************************************************)
(* JSON values as Go's encoding/json produces them when decoding into      *)
(* interface{}: nil, float64, string, map[string]interface{}.  NilMap is   *)
(* a nil map[string]interface{} (a declared but never assigned map).       *)
(***************************************************************************)
Null == [k |-> "null"]
NilMap == [k |-> "nilmap"]
Num(n) == [k |-> "num", n |-> n]
Str(s) == [k |-> "str", s |-> s]
Arr(a) == [k |-> "arr", a |-> a]
Obj(m) == [k |-> "obj", m |-> m]
EmptyObj == Obj(<<>>)

OneTwo == Obj([one |-> Str("two")])

(***************************************************************************)
(* The texts of the model: request bodies and stored payloads.             *)
(***************************************************************************)
TxtEmpty == ""
TxtGarbage == "------------"
TxtNull == "null"
TxtArray == "[\"a\"]"
TxtEmptyObj == "{}"
TxtOneTwo == "{\"one\":\"two\"}"
TxtOneTwoSpaced == "{ \"one\" : \"two\" }"
TxtPrefsWrapped == "{\"preferences\":{\"one\":\"two\"}}"
TxtPrefsNum == "{\"preferences\":1}"
TxtPrefsNull == "{\"preferences\":null}"
TxtPrefsMixed == "{\"one\":\"two\",\"preferences\":{}}"
TxtSessWrapped == "{\"session\":{\"one\":\"two\"}}"
TxtSessNum == "{\"session\":1}"
TxtSessNull == "{\"session\":null}"
TxtPrefsEmpty == "{\"preferences\":{}}"
TxtSessEmpty == "{\"session\":{}}"
TxtSessMixed == "{\"one\":\"two\",\"session\":{}}"
TxtOne == "1"
TxtPercent == "{\"one\":\"100%\"}"

Texts ==
    { TxtEmpty, TxtGarbage, TxtNull, TxtArray, TxtEmptyObj, TxtOneTwo,
      TxtOneTwoSpaced, TxtPrefsWrapped, TxtPrefsNum, TxtPrefsNull,
      TxtPrefsMixed, TxtPrefsEmpty, TxtSessWrapped, TxtSessNum, TxtSessNull,
      TxtSessMixed, TxtSessEmpty, TxtOne, TxtPercent }

(***************************************************************************)
(* Decode(t): what a JSON decoder makes of text t.  ok is FALSE for a      *)
(* syntax error (the empty text included: "unexpected end of JSON input"). *)
(* Only the texts of the model are decoded.                                *)
(***************************************************************************)
Decode(t) ==
    CASE t = TxtEmpty -> [ok |-> FALSE, v |-> Null]
      [] t = TxtGarbage -> [ok |-> FALSE, v |-> Null]
      [] t = TxtNull -> [ok |-> TRUE, v |-> Null]
      [] t = TxtArray -> [ok |-> TRUE, v |-> Arr(<<Str("a")>>)]
      [] t = TxtEmptyObj -> [ok |-> TRUE, v |-> EmptyObj]
      [] t = TxtOneTwo -> [ok |-> TRUE, v |-> OneTwo]
      [] t = TxtOneTwoSpaced -> [ok |-> TRUE, v |-> OneTwo]
      [] t = TxtPrefsWrapped -> [ok |-> TRUE, v |-> Obj([preferences |-> OneTwo])]
      [] t = TxtPrefsNum -> [ok |-> TRUE, v |-> Obj([preferences |-> Num(1)])]
      [] t = TxtPrefsNull -> [ok |-> TRUE, v |-> Obj([preferences |-> Null])]
      [] t = TxtPrefsMixed ->
            [ok |-> TRUE, v |-> Obj([one |-> Str("two"), preferences |-> EmptyObj])]
      [] t = TxtSessWrapped -> [ok |-> TRUE, v |-> Obj([session |-> OneTwo])]
      [] t = TxtSessNum -> [ok |-> TRUE, v |-> Obj([session |-> Num(1)])]
      [] t = TxtSessNull -> [ok |-> TRUE, v |-> Obj([session |-> Null])]
      [] t = TxtPrefsEmpty -> [ok |-> TRUE, v |-> Obj([preferences |-> EmptyObj])]
      [] t = TxtSessEmpty -> [ok |-> TRUE, v |-> Obj([session |-> EmptyObj])]
      [] t = TxtSessMixed ->
            [ok |-> TRUE, v |-> Obj([one |-> Str("two"), session |-> EmptyObj])]
      [] t = TxtOne -> [ok |-> TRUE, v |-> Num(1)]
      [] t = TxtPercent -> [ok |-> TRUE, v |-> Obj([one |-> Str("100%")])]

\* json.Unmarshal(text, &m) with m a map[string]interface{}: a syntax error
\* or a non-object value is an error, JSON null leaves the map nil.
UnmarshalMap(t) ==
    LET d == Decode(t) IN
    IF ~d.ok THEN [err |-> TRUE, v |-> NilMap]
    ELSE IF d.v = Null THEN [err |-> FALSE, v |-> NilMap]
    ELSE IF d.v.k = "obj" THEN [err |-> FALSE, v |-> d.v]
    ELSE [err |-> TRUE, v |-> NilMap]

\* err.Error() of a failed json.Unmarshal of text t.
UnmarshalErrText(t) ==
    CASE t = TxtEmpty -> "unexpected end of JSON input"
      [] t = TxtGarbage -> "invalid character '-' in numeric literal"
      [] OTHER ->
            "json: cannot unmarshal array into Go value of type map[string]interface {}"

\* json.Unmarshal(text, &x) with x an interface{}: any valid JSON decodes.
UnmarshalAny(t) ==
    LET d == Decode(t) IN [err |-> ~d.ok, v |-> d.v]

\* The keys of the model's objects in the order json.Marshal writes them
\* (sorted).
KeyOrder == <<"id", "one", "preferences", "saved_searches", "session", "user">>

RECURSIVE Marshal(_)
RECURSIVE MarshalMembers(_, _, _)
RECURSIVE MarshalElems(_, _)

\* The members of map m whose keys are KeyOrder[i..], comma separated.
MarshalMembers(m, i, first) ==
    IF i > Len(KeyOrder) THEN ""
    ELSE IF KeyOrder[i] \in DOMAIN m
         THEN (IF first THEN "" ELSE ",")
              \o "\"" \o KeyOrder[i] \o "\":" \o Marshal(m[KeyOrder[i]])
              \o MarshalMembers(m, i + 1, FALSE)
         ELSE MarshalMembers(m, i + 1, first)

MarshalElems(a, i) ==
    IF i > Len(a) THEN ""
    ELSE (IF i = 1 THEN "" ELSE ",") \o Marshal(a[i]) \o MarshalElems(a, i + 1)

\* json.Marshal: a nil map and a nil interface are both written as null.
Marshal(v) ==
    CASE v.k = "null" -> "null"
      [] v.k = "nilmap" -> "null"
      [] v.k = "num" -> ToString(v.n)
      [] v.k = "str" -> "\"" \o v.s \o "\""
      [] v.k = "arr" -> "[" \o MarshalElems(v.a, 1) \o "]"
      [] v.k = "obj" -> "{" \o MarshalMembers(v.m, 1, TRUE) \o "}"

\* Go's len() and key lookup on a map[string]interface{}; both are defined on
\* a nil map.
MapLen(v) == IF v.k = "obj" THEN Cardinality(DOMAIN v.m) ELSE 0
HasKey(v, key) == v.k = "obj" /\ key \in DOMAIN v.m

(***************************************************************************)
(* The envelope converters.  The result is one of                          *)
(*   [kind |-> "ok", val |-> map]   the map returned with a nil error,     *)
(*   [kind |-> "err"]               (nil, err),                            *)
(*   [kind |-> "panic"]             the type assertion                     *)
(*                                  values[key].(map[string]interface{})   *)
(*                                  fails and the goroutine panics.        *)
(***************************************************************************)
ConvOk(v) == [kind |-> "ok", val |-> v]
ConvErr == [kind |-> "err", val |-> NilMap]
ConvPanic == [kind |-> "panic", val |-> NilMap]

\* convertPrefs wrapping without looking for the envelope key.
convertPrefsAlwaysWrap(payload, wrap) ==
    LET parsed == IF payload # "" THEN UnmarshalMap(payload)
                  ELSE [err |-> FALSE, v |-> NilMap]
        values == parsed.v
    IN  IF parsed.err THEN ConvErr
        ELSE IF ~wrap
             THEN IF HasKey(values, "preferences")
                  THEN IF values.m["preferences"].k = "obj"
                       THEN ConvOk(values.m["preferences"])
                       ELSE ConvPanic
                  ELSE ConvOk(values)
             ELSE ConvOk(Obj([preferences |-> values]))

\* convertPrefs taking a payload it cannot parse for an empty mapping.
convertPrefsIgnoreError(payload, wrap) ==
    LET parsed == IF payload # "" THEN UnmarshalMap(payload)
                  ELSE [err |-> FALSE, v |-> NilMap]
        values == IF parsed.err THEN NilMap ELSE parsed.v
    IN  IF ~wrap
        THEN IF HasKey(values, "preferences")
             THEN IF values.m["preferences"].k = "obj"
                  THEN ConvOk(values.m["preferences"])
                  ELSE ConvPanic
             ELSE ConvOk(values)
        ELSE IF ~HasKey(values, "preferences")
             THEN ConvOk(Obj([preferences |-> values]))
             ELSE ConvOk(values)

convertPrefs(payload, wrap) ==
    LET parsed == IF payload # "" THEN UnmarshalMap(payload)
                  ELSE [err |-> FALSE, v |-> NilMap]
        values == parsed.v
    IN  IF parsed.err THEN ConvErr
        ELSE IF ~wrap
             THEN IF HasKey(values, "preferences")
                  THEN IF values.m["preferences"].k = "obj"
                       THEN ConvOk(values.m["preferences"])
                       ELSE ConvPanic
                  ELSE ConvOk(values)
             ELSE IF ~HasKey(values, "preferences")
                  THEN ConvOk(Obj([preferences |-> values]))
                  ELSE ConvOk(values)

\* convertSessions leaving the mapping as it is when asked to wrap it.
convertSessionsNeverWrap(payload, wrap) ==
    LET parsed == IF payload # "" THEN UnmarshalMap(payload)
                  ELSE [err |-> FALSE, v |-> NilMap]
        values == parsed.v
    IN  IF parsed.err THEN ConvErr
        ELSE IF ~wrap
             THEN IF HasKey(values, "session")
                  THEN IF values.m["session"].k = "obj"
                       THEN ConvOk(values.m["session"])
                       ELSE ConvPanic
                  ELSE ConvOk(values)
             ELSE ConvOk(values)

convertSessions(payload, wrap) ==
    LET parsed == IF payload # "" THEN UnmarshalMap(payload)
                  ELSE [err |-> FALSE, v |-> NilMap]
        values == parsed.v
    IN  IF parsed.err THEN ConvErr
        ELSE IF ~wrap
             THEN IF HasKey(values, "session")
                  THEN IF values.m["session"].k = "obj"
                       THEN ConvOk(values.m["session"])
                       ELSE ConvPanic
                  ELSE ConvOk(values)
             ELSE IF ~HasKey(values, "session")
                  THEN ConvOk(Obj([session |-> values]))
                  ELSE ConvOk(values)

(***************************************************************************)
(* State.                                                                  *)
(*   users      the usernames the users table resolves (queries.IsUser,    *)
(*              queries.UserID); owned by an external user management      *)
(*   tbl        tbl[app][u]: the rows of app's table owned by u, as a bag  *)
(*              of payloads (no query of the code orders its rows)         *)
(*   req        req[p]: the request handled in slot p                      *)
(*   nreq       number of requests started so far                          *)
(*   lastWrite  history: lastWrite[app][u] is the payload of the latest    *)
(*              INSERT/UPDATE executed on u's rows of app, "" when there   *)
(*              was none or a DELETE was executed after it                 *)
(*   deleted    history: deleted[app][u] is TRUE when the latest INSERT,   *)
(*              UPDATE (of at least one row) or DELETE executed for u in   *)
(*              app was a DELETE                                           *)
(*   focus      the app whose handlers the behaviour exercises: the apps   *)
(*              share no table and no other state                          *)
(*   cv         the converter on its own: an input and its results         *)
(*   bags       the bags table: a set of [id, owner, contents]             *)
(*   nextBag    the number of the next bag id the database generates       *)
(*   defaults   the default_bags table: a set of [user, bag]               *)
(*   call       the latest call of a BagsAPI method made on its own        *)
(***************************************************************************)
VARIABLES users, tbl, req, nreq, lastWrite, deleted, focus, cv, bags, nextBag,
          defaults, call

vars == <<users, tbl, req, nreq, lastWrite, deleted, focus, cv, bags, nextBag,
          defaults, call>>

Procs == 1 .. NumProcs
Apps == {"preferences", "sessions", "searches"}
EnvelopeApps == {"preferences", "sessions"}
TestUser == "test-user"
Nobody == "nobody"
Usernames == {TestUser, Nobody}
Methods == {"GET", "PUT", "POST", "DELETE"}

\* A router whose PutRequest does not call PostRequest.
RoutePutAsGet(method) ==
    CASE method = "GET" -> "Get"
      [] method = "PUT" -> "Get"
      [] method = "POST" -> "Post"
      [] method = "DELETE" -> "Delete"

\* The handler the router dispatches a method to; PutRequest only calls
\* PostRequest.
Route(method) ==
    CASE method = "GET" -> "Get"
      [] method = "PUT" -> "Post"
      [] method = "POST" -> "Post"
      [] method = "DELETE" -> "Delete"

\* Request bodies tried on each app.
BodiesOf(app) ==
    CASE app = "preferences" ->
            {TxtOneTwo, TxtOneTwoSpaced, TxtPrefsWrapped, TxtPrefsNum, TxtGarbage}
      [] app = "sessions" ->
            {TxtOneTwo, TxtOneTwoSpaced, TxtSessWrapped, TxtSessNum, TxtGarbage}
      [] app = "searches" -> {TxtArray, TxtOneTwo, TxtGarbage}

\* Payloads a row may hold before the first request: texts no request can
\* store (every handler validates the body before writing it).
LegacyPayloads == {TxtEmpty, TxtGarbage}

StoreErrText == "pq: connection refused"
NoRowsErrText == "sql: no rows in result set"

Idle ==
    [app |-> "", h |-> "", user |-> "", body |-> "", pc |-> "idle",
     from |-> "", hasRec |-> FALSE, status |-> 0, out |-> "", panicked |-> FALSE,
     storeErr |-> FALSE, uname |-> "", bagID |-> "", method |-> ""]

NoCall == [op |-> "", user |-> "", bag |-> "", err |-> FALSE, msg |-> "",
           prev |-> {}]

NoCv == [phase |-> "off", app |-> "", payload |-> "", wrap |-> FALSE,
         first |-> ConvErr, again |-> ConvErr]

(***************************************************************************)
(* Writing a response.  status = 0: no header written yet.  The first      *)
(* WriteHeader wins; every write appends to the body.                      *)
(***************************************************************************)
httpError(r, msg, code) ==
    [r EXCEPT !.status = IF r.status = 0 THEN code ELSE r.status,
              !.out = r.out \o msg \o "\n"]

badRequest(r, msg) == httpError(r, msg, StatusBadRequest)

errored(r, msg) == httpError(r, msg, StatusInternalServerError)

notFound(r, msg) == httpError(r, msg, StatusNotFound)

handleNonUser(r, username) ==
    notFound(r, Marshal(Obj([user |-> Str(username)])))

\* writer.Write(bytes)
Write(r, bytes) ==
    [r EXCEPT !.status = IF r.status = 0 THEN StatusOK ELSE r.status,
              !.out = r.out \o bytes]

\* The handler returns: net/http sends 200 if no header was written.  from
\* keeps the step the handler returned from.
Return(r) ==
    [r EXCEPT !.pc = "done", !.from = r.pc,
              !.status = IF r.status = 0 THEN StatusOK ELSE r.status]

\* The handler panics: net/http recovers, writes nothing and drops the
\* connection.
Panic(r) == [r EXCEPT !.pc = "done", !.from = r.pc, !.panicked = TRUE]

\* What fmt prints for a format string and no operands.  A '%' starts a
\* verb: in TxtPercent the verb is the '"' after it, and a verb without an
\* operand is printed as %!verb(MISSING).  No other text of the model holds
\* a '%'; a text without one is printed as it is.
TxtPercentPrinted == "{\"one\":\"100%!\"(MISSING)}"

doPrintf(format) ==
    IF format = TxtPercent THEN TxtPercentPrinted ELSE format

\* fmt.Fprintf(writer, text) with no operands: text is the format string.
FprintfNoArgs(r, text) == Write(r, doPrintf(text))

(***************************************************************************)
(* The record stores.  T is one table: [Usernames -> bag of payloads].     *)
(***************************************************************************)
isUser(username) == username \in users

\* hasPreferences finding no record whatever the table holds.
hasPreferencesNever(username) == FALSE

\* hasPreferences as the store double of the tests answers it: a row holding
\* the empty string is no record.
hasPreferencesNonEmpty(username) ==
    \E payload \in BagToSet(tbl["preferences"][username]) : payload # ""

hasPreferences(username) == BagCardinality(tbl["preferences"][username]) > 0

\* hasSessions finding a record whatever the table holds.
hasSessionsAlways(username) == TRUE

hasSessions(username) == BagCardinality(tbl["sessions"][username]) > 0

hasSavedSearches(username) == BagCardinality(tbl["searches"][username]) > 0

hasRecord(app, username) ==
    CASE app = "preferences" -> hasPreferences(username)
      [] app = "sessions" -> hasSessions(username)
      [] app = "searches" -> hasSavedSearches(username)

\* INSERT INTO t (user_id, payload) VALUES ($1, $2)
insertRow(T, username, payload) ==
    [T EXCEPT ![username] = @ (+) SetToBag({payload})]

\* An UPDATE that changes no row.
updateRowsNoop(T, username, payload) == T

\* An UPDATE that adds the row when the user has none.
updateRowsOrInsert(T, username, payload) ==
    [T EXCEPT ![username] =
        IF BagCardinality(@) = 0 THEN SetToBag({payload})
        ELSE [e \in {payload} |-> BagCardinality(@)]]

\* UPDATE ONLY t SET payload = $2 WHERE user_id = $1: every row of the user.
updateRows(T, username, payload) ==
    [T EXCEPT ![username] =
        IF BagCardinality(@) = 0 THEN @
        ELSE [e \in {payload} |-> BagCardinality(@)]]

\* A DELETE that removes no row.
deleteRowsNone(T, username) == T

\* DELETE FROM ONLY t WHERE user_id = $1
deleteRows(T, username) == [T EXCEPT ![username] = EmptyBag]

\* The payloads the handler may find in records[0]; a zero record (payload
\* "") when the user has no row.
FirstRecord(app, username) ==
    IF BagCardinality(tbl[app][username]) = 0 THEN {""}
    ELSE BagToSet(tbl[app][username])

(***************************************************************************)
(* getUserPreferencesForRequest / getUserSessionForRequest, given the      *)
(* payload of records[0]: [kind, out] with out the JSON or the error text. *)
(***************************************************************************)
\* getUserPreferencesForRequest marshalling the mapping whatever its length.
getUserPreferencesForRequestNoLen(username, payload, wrap) ==
    LET response == convertPrefs(payload, wrap) IN
    CASE response.kind = "err" ->
            [kind |-> "err",
             out |-> "Error generating response for username " \o username
                         \o ": " \o UnmarshalErrText(payload)]
      [] response.kind = "panic" -> [kind |-> "panic", out |-> ""]
      [] response.kind = "ok" ->
            [kind |-> "ok", out |-> Marshal(response.val)]

getUserPreferencesForRequest(username, payload, wrap) ==
    LET response == convertPrefs(payload, wrap) IN
    CASE response.kind = "err" ->
            [kind |-> "err",
             out |-> "Error generating response for username " \o username
                         \o ": " \o UnmarshalErrText(payload)]
      [] response.kind = "panic" -> [kind |-> "panic", out |-> ""]
      [] response.kind = "ok" ->
            [kind |-> "ok",
             out |-> IF MapLen(response.val) > 0 THEN Marshal(response.val)
                     ELSE "{}"]

getUserSessionForRequest(username, payload, wrap) ==
    LET response == convertSessions(payload, wrap) IN
    CASE response.kind = "err" ->
            [kind |-> "err",
             out |-> "Error generating response for username " \o username
                         \o ": " \o UnmarshalErrText(payload)]
      [] response.kind = "panic" -> [kind |-> "panic", out |-> ""]
      [] response.kind = "ok" ->
            [kind |-> "ok",
             out |-> IF MapLen(response.val) > 0 THEN Marshal(response.val)
                     ELSE "{}"]

getUserRecordForRequest(app, username, payload, wrap) ==
    IF app = "preferences"
    THEN getUserPreferencesForRequest(username, payload, wrap)
    ELSE getUserSessionForRequest(username, payload, wrap)

\* The word the handlers' messages use for the app's record.
Noun(app) == IF app = "preferences" THEN "preferences" ELSE "session"

\* What each app answers when isUser says the user does not exist.
NonUser(r) ==
    CASE r.app = "preferences" -> Return(handleNonUser(r, r.user))
      [] r.app = "sessions" ->
            Return(badRequest(r, "User " \o r.user \o " does not exist"))
      [] r.app = "searches" ->
            IF r.h = "Delete" THEN Return(r)
            ELSE Return(handleNonUser(r, r.user))

IsUserFailed(r) ==
    Return(badRequest([r EXCEPT !.storeErr = TRUE],
                      "Error checking for username " \o r.user \o ": "
                          \o StoreErrText))

StoreFailed(r, msg) ==
    Return(errored([r EXCEPT !.storeErr = TRUE], msg \o StoreErrText))

(***************************************************************************)
(* The environment: a request arrives; the user management drops a user.   *)
(***************************************************************************)
Free(p) == req[p].pc = "idle"

\* No handler has returned without its response having been sent.  Sending
\* the response touches nothing shared, so it is scheduled first.
NoneDone == \A q \in Procs : req[q].pc # "done"

\* A request arrives and is routed to its handler.  Slots are
\* interchangeable: the request takes the lowest free one.
Arrive(p, app, method, username, body) ==
    /\ NoneDone
    /\ app = focus
    /\ Free(p)
    /\ \A q \in Procs : q < p => ~Free(q)
    /\ req' = [req EXCEPT ![p] =
                  [Idle EXCEPT !.app = app, !.h = Route(method),
                               !.user = username, !.body = body,
                               !.pc = "isUser"]]
    /\ nreq' = nreq + 1
    /\ UNCHANGED <<users, tbl, lastWrite, deleted, focus, cv, bags, nextBag,
                 defaults, call>>

\* A request arrives while others may be in flight.
StartRequest(p, app, method, username, body) ==
    /\ nreq < MaxReqs
    /\ Arrive(p, app, method, username, body)

\* A request arrives when no other request is in flight.
StartAlone(p, app, method, username, body) ==
    /\ nreq < MaxSeqReqs
    /\ \A q \in Procs : Free(q)
    /\ Arrive(p, app, method, username, body)

\* The user management removes a user; a user who owns rows is not removed
\* (the rows reference the user).
DropUser(username) ==
    /\ NoneDone
    /\ username \in users
    /\ \A app \in Apps : BagCardinality(tbl[app][username]) = 0
    /\ users' = users \ {username}
    /\ UNCHANGED <<tbl, req, nreq, lastWrite, deleted, focus, cv, bags, nextBag,
                 defaults, call>>

\* net/http sends the response of a handler that returned; the slot is free.
Respond(p) ==
    /\ req[p].pc = "done"
    /\ req' = [req EXCEPT ![p] = Idle]
    /\ UNCHANGED <<users, tbl, nreq, lastWrite, deleted, focus, cv, bags, nextBag,
                 defaults, call>>

(***************************************************************************)
(* UserPreferencesApp / UserSessionsApp: GetRequest.                       *)
(***************************************************************************)
GetRequestIsUser(p) ==
    /\ NoneDone
    /\ req[p].pc = "isUser" /\ req[p].h = "Get" /\ req[p].app \in EnvelopeApps
    /\ \E fail \in BOOLEAN :
          req' = [req EXCEPT ![p] =
                     IF fail THEN IsUserFailed(@)
                     ELSE IF ~isUser(@.user) THEN NonUser(@)
                     ELSE [@ EXCEPT !.pc = "fetch"]]
    /\ UNCHANGED <<users, tbl, nreq, lastWrite, deleted, focus, cv, bags, nextBag,
                 defaults, call>>

\* getUserXForRequest(username, false), then errored (without return) and
\* writer.Write(jsoned).
GetRequestFetch(p) ==
    /\ NoneDone
    /\ req[p].pc = "fetch" /\ req[p].app \in EnvelopeApps
    /\ \E fail \in BOOLEAN, payload \in FirstRecord(req[p].app, req[p].user) :
          LET r == req[p]
              got == getUserRecordForRequest(r.app, r.user, payload, FALSE)
          IN  req' = [req EXCEPT ![p] =
                  IF fail
                  THEN Return(Write(errored([r EXCEPT !.storeErr = TRUE],
                           "Error getting " \o r.app \o " for username "
                               \o r.user \o ": " \o StoreErrText), ""))
                  ELSE CASE got.kind = "err" ->
                                Return(Write(errored(r, got.out), ""))
                         [] got.kind = "panic" -> Panic(r)
                         [] got.kind = "ok" -> Return(Write(r, got.out))]
    /\ UNCHANGED <<users, tbl, nreq, lastWrite, deleted, focus, cv, bags, nextBag,
                 defaults, call>>

(***************************************************************************)
(* UserPreferencesApp / UserSessionsApp: PostRequest (and PutRequest).     *)
(***************************************************************************)
PostRequestIsUser(p) ==
    /\ NoneDone
    /\ req[p].pc = "isUser" /\ req[p].h = "Post" /\ req[p].app \in EnvelopeApps
    /\ \E fail \in BOOLEAN :
          req' = [req EXCEPT ![p] =
                     IF fail THEN IsUserFailed(@)
                     ELSE IF ~isUser(@.user) THEN NonUser(@)
                     ELSE [@ EXCEPT !.pc = "hasRecord"]]
    /\ UNCHANGED <<users, tbl, nreq, lastWrite, deleted, focus, cv, bags, nextBag,
                 defaults, call>>

\* hasPreferences / hasSessions, then the body is read and checked.
PostRequestHasRecord(p) ==
    /\ NoneDone
    /\ req[p].pc = "hasRecord" /\ req[p].h = "Post"
    /\ req[p].app \in EnvelopeApps
    /\ \E fail \in BOOLEAN :
          LET r == req[p] IN
          req' = [req EXCEPT ![p] =
                     IF fail
                     THEN StoreFailed(r, "Error checking " \o Noun(r.app)
                                             \o " for user " \o r.user \o ": ")
                     ELSE IF UnmarshalMap(r.body).err
                     THEN Return(errored(r, "Error parsing request body: "
                                                \o UnmarshalErrText(r.body)))
                     ELSE [r EXCEPT !.hasRec = hasRecord(r.app, r.user),
                                    !.pc = "upsert"]]
    /\ UNCHANGED <<users, tbl, nreq, lastWrite, deleted, focus, cv, bags, nextBag,
                 defaults, call>>

\* insertX if the check found no record, updateX otherwise; both resolve the
\* user id first and fail if the username no longer resolves.
PostRequestUpsert(p) ==
    /\ NoneDone
    /\ req[p].pc = "upsert" /\ req[p].app \in EnvelopeApps
    /\ \E fail \in BOOLEAN :
          LET r == req[p]
              msg == "Error " \o (IF r.hasRec THEN "updating " ELSE "inserting ")
                         \o Noun(r.app) \o " for user " \o r.user \o ": "
          IN
          IF fail \/ ~isUser(r.user)
          THEN /\ req' = [req EXCEPT ![p] =
                     IF fail THEN StoreFailed(r, msg)
                     ELSE Return(errored(r, msg \o NoRowsErrText))]
               /\ UNCHANGED <<tbl, lastWrite, deleted>>
          ELSE /\ tbl' = [tbl EXCEPT ![r.app] =
                     IF ~r.hasRec THEN insertRow(@, r.user, r.body)
                     ELSE updateRows(@, r.user, r.body)]
               /\ lastWrite' = [lastWrite EXCEPT ![r.app][r.user] =
                     IF ~r.hasRec \/ hasRecord(r.app, r.user) THEN r.body
                     ELSE @]
               /\ deleted' = [deleted EXCEPT ![r.app][r.user] =
                     IF ~r.hasRec \/ hasRecord(r.app, r.user) THEN FALSE
                     ELSE @]
               /\ req' = [req EXCEPT ![p].pc = "refetch"]
    /\ UNCHANGED <<users, nreq, focus, cv, bags, nextBag,
                 defaults, call>>

\* getUserXForRequest(username, true) and the response.
PostRequestRefetch(p) ==
    /\ NoneDone
    /\ req[p].pc = "refetch" /\ req[p].app \in EnvelopeApps
    /\ \E fail \in BOOLEAN, payload \in FirstRecord(req[p].app, req[p].user) :
          LET r == req[p]
              got == getUserRecordForRequest(r.app, r.user, payload, TRUE)
          IN  req' = [req EXCEPT ![p] =
                  IF fail
                  THEN StoreFailed(r, "Error getting " \o r.app
                                          \o " for username " \o r.user \o ": ")
                  ELSE CASE got.kind = "err" -> Return(errored(r, got.out))
                         [] got.kind = "panic" -> Panic(r)
                         [] got.kind = "ok" -> Return(Write(r, got.out))]
    /\ UNCHANGED <<users, tbl, nreq, lastWrite, deleted, focus, cv, bags, nextBag,
                 defaults, call>>

(***************************************************************************)
(* UserPreferencesApp / UserSessionsApp: DeleteRequest.                    *)
(***************************************************************************)
DeleteRequestIsUser(p) ==
    /\ NoneDone
    /\ req[p].pc = "isUser" /\ req[p].h = "Delete"
    /\ req[p].app \in EnvelopeApps
    /\ \E fail \in BOOLEAN :
          req' = [req EXCEPT ![p] =
                     IF fail THEN IsUserFailed(@)
                     ELSE IF ~isUser(@.user) THEN NonUser(@)
                     ELSE [@ EXCEPT !.pc = "hasRecord"]]
    /\ UNCHANGED <<users, tbl, nreq, lastWrite, deleted, focus, cv, bags, nextBag,
                 defaults, call>>

DeleteRequestHasRecord(p) ==
    /\ NoneDone
    /\ req[p].pc = "hasRecord" /\ req[p].h = "Delete"
    /\ req[p].app \in EnvelopeApps
    /\ \E fail \in BOOLEAN :
          LET r == req[p] IN
          req' = [req EXCEPT ![p] =
                     IF fail
                     THEN StoreFailed(r, "Error checking " \o Noun(r.app)
                                             \o " for user " \o r.user \o ": ")
                     ELSE IF ~hasRecord(r.app, r.user) THEN Return(r)
                     ELSE [r EXCEPT !.hasRec = TRUE, !.pc = "delete"]]
    /\ UNCHANGED <<users, tbl, nreq, lastWrite, deleted, focus, cv, bags, nextBag,
                 defaults, call>>

DeleteRequestDelete(p) ==
    /\ NoneDone
    /\ req[p].pc = "delete" /\ req[p].app \in EnvelopeApps
    /\ \E fail \in BOOLEAN :
          LET r == req[p] IN
          IF fail \/ ~isUser(r.user)
          THEN /\ req' = [req EXCEPT ![p] =
                     IF fail
                     THEN StoreFailed(r, "Error deleting " \o Noun(r.app)
                                             \o " for user " \o r.user \o ": ")
                     ELSE Return(errored(r, "Error deleting " \o Noun(r.app)
                                     \o " for user " \o r.user \o ": "
                                     \o NoRowsErrText))]
               /\ UNCHANGED <<tbl, lastWrite, deleted>>
          ELSE /\ tbl' = [tbl EXCEPT ![r.app] = deleteRows(@, r.user)]
               /\ lastWrite' = [lastWrite EXCEPT ![r.app][r.user] = ""]
               /\ deleted' = [deleted EXCEPT ![r.app][r.user] = TRUE]
               /\ req' = [req EXCEPT ![p] = Return(r)]
    /\ UNCHANGED <<users, nreq, focus, cv, bags, nextBag,
                 defaults, call>>

(***************************************************************************)
(* SavedSearchesApp.                                                       *)
(***************************************************************************)
SearchesGetIsUser(p) ==
    /\ NoneDone
    /\ req[p].pc = "isUser" /\ req[p].h = "Get" /\ req[p].app = "searches"
    /\ \E fail \in BOOLEAN :
          req' = [req EXCEPT ![p] =
                     IF fail THEN IsUserFailed(@)
                     ELSE IF ~isUser(@.user) THEN NonUser(@)
                     ELSE [@ EXCEPT !.pc = "fetch"]]
    /\ UNCHANGED <<users, tbl, nreq, lastWrite, deleted, focus, cv, bags, nextBag,
                 defaults, call>>

\* getSavedSearches, then "{}" or searches[0] written with fmt.Fprintf.
SearchesGetFetch(p) ==
    /\ NoneDone
    /\ req[p].pc = "fetch" /\ req[p].app = "searches"
    /\ \E fail \in BOOLEAN, payload \in FirstRecord("searches", req[p].user) :
          LET r == req[p] IN
          req' = [req EXCEPT ![p] =
                     IF fail THEN StoreFailed(r, "")
                     ELSE IF ~hasSavedSearches(r.user)
                     THEN Return(FprintfNoArgs(r, "{}"))
                     ELSE Return(FprintfNoArgs(r, payload))]
    /\ UNCHANGED <<users, tbl, nreq, lastWrite, deleted, focus, cv, bags, nextBag,
                 defaults, call>>

\* The body is read and checked before the user is looked up.
SearchesPostIsUser(p) ==
    /\ NoneDone
    /\ req[p].pc = "isUser" /\ req[p].h = "Post" /\ req[p].app = "searches"
    /\ \E fail \in BOOLEAN :
          LET r == req[p] IN
          req' = [req EXCEPT ![p] =
                     IF UnmarshalAny(r.body).err
                     THEN Return(badRequest(r, "Error parsing body: "
                                                   \o UnmarshalErrText(r.body)))
                     ELSE IF fail THEN IsUserFailed(r)
                     ELSE IF ~isUser(r.user) THEN NonUser(r)
                     ELSE [r EXCEPT !.pc = "hasRecord"]]
    /\ UNCHANGED <<users, tbl, nreq, lastWrite, deleted, focus, cv, bags, nextBag,
                 defaults, call>>

SearchesPostHasRecord(p) ==
    /\ NoneDone
    /\ req[p].pc = "hasRecord" /\ req[p].app = "searches"
    /\ \E fail \in BOOLEAN :
          LET r == req[p] IN
          req' = [req EXCEPT ![p] =
                     IF fail THEN StoreFailed(r, "")
                     ELSE [r EXCEPT !.hasRec = hasSavedSearches(r.user),
                                    !.pc = "upsert"]]
    /\ UNCHANGED <<users, tbl, nreq, lastWrite, deleted, focus, cv, bags, nextBag,
                 defaults, call>>

\* upsert(username, bodyString), then {"saved_searches": parsedBody}.
SearchesPostUpsert(p) ==
    /\ NoneDone
    /\ req[p].pc = "upsert" /\ req[p].app = "searches"
    /\ \E fail \in BOOLEAN :
          LET r == req[p] IN
          IF fail \/ ~isUser(r.user)
          THEN /\ req' = [req EXCEPT ![p] =
                     IF fail THEN StoreFailed(r, "")
                     ELSE Return(errored(r, NoRowsErrText))]
               /\ UNCHANGED <<tbl, lastWrite, deleted>>
          ELSE /\ tbl' = [tbl EXCEPT !["searches"] =
                     IF ~r.hasRec THEN insertRow(@, r.user, r.body)
                     ELSE updateRows(@, r.user, r.body)]
               /\ lastWrite' = [lastWrite EXCEPT !["searches"][r.user] =
                     IF ~r.hasRec \/ hasSavedSearches(r.user) THEN r.body
                     ELSE @]
               /\ deleted' = [deleted EXCEPT !["searches"][r.user] =
                     IF ~r.hasRec \/ hasSavedSearches(r.user) THEN FALSE
                     ELSE @]
               /\ req' = [req EXCEPT ![p] =
                     Return(Write(r,
                         Marshal(Obj([saved_searches |->
                                         UnmarshalAny(r.body).v]))))]
    /\ UNCHANGED <<users, nreq, focus, cv, bags, nextBag,
                 defaults, call>>

SearchesDeleteIsUser(p) ==
    /\ NoneDone
    /\ req[p].pc = "isUser" /\ req[p].h = "Delete" /\ req[p].app = "searches"
    /\ \E fail \in BOOLEAN :
          req' = [req EXCEPT ![p] =
                     IF fail THEN IsUserFailed(@)
                     ELSE IF ~isUser(@.user) THEN NonUser(@)
                     ELSE [@ EXCEPT !.pc = "delete"]]
    /\ UNCHANGED <<users, tbl, nreq, lastWrite, deleted, focus, cv, bags, nextBag,
                 defaults, call>>

\* deleteSavedSearches: a failed user id lookup returns nil (no error), a
\* failed DELETE returns the error.
SearchesDeleteDelete(p) ==
    /\ NoneDone
    /\ req[p].pc = "delete" /\ req[p].app = "searches"
    /\ \E failLookup \in BOOLEAN, failExec \in BOOLEAN :
          LET r == req[p] IN
          IF failLookup \/ ~isUser(r.user)
          THEN /\ req' = [req EXCEPT ![p] =
                              Return([r EXCEPT !.storeErr = failLookup])]
               /\ UNCHANGED <<tbl, lastWrite, deleted>>
          ELSE IF failExec
          THEN /\ req' = [req EXCEPT ![p] = StoreFailed(r, "")]
               /\ UNCHANGED <<tbl, lastWrite, deleted>>
          ELSE /\ tbl' = [tbl EXCEPT !["searches"] = deleteRows(@, r.user)]
               /\ lastWrite' = [lastWrite EXCEPT !["searches"][r.user] = ""]
               /\ deleted' = [deleted EXCEPT !["searches"][r.user] = TRUE]
               /\ req' = [req EXCEPT ![p] = Return(r)]
    /\ UNCHANGED <<users, nreq, focus, cv, bags, nextBag,
                 defaults, call>>

(***************************************************************************)
(* The specification of the service.                                       *)
(***************************************************************************)
NoRows == [app \in Apps |-> [u \in Usernames |-> EmptyBag]]

\* The tables before the first request: empty, or one legacy row of the
\* test user in one table.
InitTables(app) ==
    {NoRows} \cup
    { [NoRows EXCEPT ![app][TestUser] = SetToBag({payload})] :
          payload \in LegacyPayloads }

Init ==
    /\ users = {TestUser}
    /\ focus \in Apps
    /\ tbl \in InitTables(focus)
    /\ req = [p \in Procs |-> Idle]
    /\ nreq = 0
    /\ lastWrite = [app \in Apps |-> [u \in Usernames |-> ""]]
    /\ deleted = [app \in Apps |-> [u \in Usernames |-> FALSE]]
    /\ cv = NoCv
    /\ bags = {}
    /\ nextBag = 1
    /\ defaults = {}
    /\ call = NoCall

\* The bodies tried with a request: none without a body, and for a user
\* that does not exist one that parses and one that does not.
BodiesFor(app, method, username) ==
    IF Route(method) # "Post" THEN {""}
    ELSE IF username = Nobody THEN {TxtOneTwo, TxtGarbage}
    ELSE BodiesOf(app)

Handle ==
    \E p \in Procs :
        \/ Respond(p)
        \/ GetRequestIsUser(p)
        \/ GetRequestFetch(p)
        \/ PostRequestIsUser(p)
        \/ PostRequestHasRecord(p)
        \/ PostRequestUpsert(p)
        \/ PostRequestRefetch(p)
        \/ DeleteRequestIsUser(p)
        \/ DeleteRequestHasRecord(p)
        \/ DeleteRequestDelete(p)
        \/ SearchesGetIsUser(p)
        \/ SearchesGetFetch(p)
        \/ SearchesPostIsUser(p)
        \/ SearchesPostHasRecord(p)
        \/ SearchesPostUpsert(p)
        \/ SearchesDeleteIsUser(p)
        \/ SearchesDeleteDelete(p)

Next ==
    \/ \E p \in Procs, app \in Apps, method \in Methods, u \in Usernames :
          \E body \in BodiesFor(app, method, u) :
              StartRequest(p, app, method, u, body)
    \/ \E u \in Usernames : DropUser(u)
    \/ Handle

Spec == Init /\ [][Next]_vars

(***************************************************************************)
(* The same service when requests do not overlap in time.                  *)
(***************************************************************************)
NextSeq ==
    \/ \E p \in Procs, app \in Apps, method \in Methods, u \in Usernames :
          \E body \in BodiesFor(app, method, u) :
              StartAlone(p, app, method, u, body)
    \/ \E u \in Usernames : DropUser(u)
    \/ Handle

SpecSeq == Init /\ [][NextSeq]_vars

(***************************************************************************)
(* The saved searches alone, requests one after another, with bodies of    *)
(* every JSON kind and one that holds a '%'.                               *)
(***************************************************************************)
SearchBodies == {TxtArray, TxtOneTwo, TxtOne, TxtPercent, TxtGarbage}

InitSearches ==
    /\ focus = "searches"
    /\ Init

HandleSearches ==
    \E p \in Procs :
        \/ Respond(p)
        \/ SearchesGetIsUser(p)
        \/ SearchesGetFetch(p)
        \/ SearchesPostIsUser(p)
        \/ SearchesPostHasRecord(p)
        \/ SearchesPostUpsert(p)
        \/ SearchesDeleteIsUser(p)
        \/ SearchesDeleteDelete(p)

NextSearches ==
    \/ \E p \in Procs, method \in Methods, u \in Usernames :
          \E body \in (IF Route(method) = "Post" THEN SearchBodies ELSE {""}) :
              StartAlone(p, "searches", method, u, body)
    \/ \E u \in Usernames : DropUser(u)
    \/ HandleSearches

SpecSearches == InitSearches /\ [][NextSearches]_vars

(***************************************************************************)
(* The same, with the method of each request kept with it (r.Method), to   *)
(* compare what the service does with a PUT and with a POST.               *)
(***************************************************************************)
StartMethod(p, app, method, username, body) ==
    /\ nreq < MaxSeqReqs
    /\ \A q \in Procs : Free(q)
    /\ NoneDone
    /\ app = focus
    /\ \A q \in Procs : q < p => ~Free(q)
    /\ req' = [req EXCEPT ![p] =
                  [Idle EXCEPT !.app = app, !.h = Route(method),
                               !.method = method,
                               !.user = username, !.body = body,
                               !.pc = "isUser"]]
    /\ nreq' = nreq + 1
    /\ UNCHANGED <<users, tbl, lastWrite, deleted, focus, cv, bags, nextBag,
                 defaults, call>>

NextAlias ==
    \/ \E p \in Procs, app \in Apps, method \in Methods, u \in Usernames :
          \E body \in BodiesFor(app, method, u) :
              StartMethod(p, app, method, u, body)
    \/ \E u \in Usernames : DropUser(u)
    \/ Handle

SpecAlias == Init /\ [][NextAlias]_vars

(***************************************************************************)
(* BagsApp.  A user may own any number of bags; the handlers look the user *)
(* up with getUser, which appends the domain suffix to the username of the *)
(* URL.  The local variable username of a handler is req[p].uname: it      *)
(* stays "" when getUser returns an error.                                 *)
(***************************************************************************)
IplantSuffix == "@iplantcollaborative.org"

\* The usernames of the model that end with the suffix.
SuffixedNames == { u \o IplantSuffix : u \in Usernames }

AddUsernameSuffix(username) ==
    IF username \in SuffixedNames THEN username
    ELSE username \o IplantSuffix

\* The usernames bag requests are made for, and the users of the store.
BagUrlNames == {TestUser, TestUser \o IplantSuffix, Nobody}
BagUsers == {AddUsernameSuffix(TestUser)}

\* The id the database generates for the n-th bag, and the id of a user.
BagIDText(n) == "bag-" \o ToString(n)
UserIDText(username) == "id-" \o username

\* The bag ids requests name, the handlers modelled and the bodies sent.
BagIDs == {BagIDText(1), BagIDText(2)}
BagHandlers == {"GetBag", "AddBag", "DeleteAllBags"}
BagBodies == {TxtOneTwo, TxtGarbage}

\* json.Unmarshal(body, &bag) with bag a BagRecord: a syntax error or a
\* value that is neither an object nor null is an error.  (No body of the
\* model has the fields id, contents or user_id.)
UnmarshalBagErr(t) ==
    LET d == Decode(t) IN ~d.ok \/ d.v.k \notin {"obj", "null"}

\* json.Marshal of a BagRecord: the fields in the order of the struct.
MarshalBag(bag) ==
    "{\"id\":\"" \o bag.id \o "\",\"contents\":"
        \o Marshal(Decode(bag.contents).v)
        \o ",\"user_id\":\"" \o UserIDText(bag.owner) \o "\"}"

\* getUser: the username to use, or a status and an error.
getUser(urlName, fail) ==
    LET username == AddUsernameSuffix(urlName) IN
    IF fail
    THEN [username |-> "", status |-> StatusInternalServerError, err |-> TRUE,
          msg |-> "error checking for bags " \o username \o ": "
                      \o StoreErrText]
    ELSE IF ~isUser(username)
    THEN [username |-> "", status |-> StatusNotFound, err |-> TRUE,
          msg |-> "user " \o username \o " does not exist"]
    ELSE [username |-> username, status |-> StatusOK, err |-> FALSE,
          msg |-> ""]

\* The bags of a user; HasBag and GetBag also match the bag id.
BagsOf(username) == { b \in bags : b.owner = username }
HasBag(username, bagID) == \E b \in BagsOf(username) : b.id = bagID

(***************************************************************************)
(* BagsAPI: the statements of the other store methods, as functions of     *)
(* the bags table B and the default_bags table D.  Each method resolves    *)
(* the user id first; the callers below handle that lookup.                *)
(***************************************************************************)
OtherUser == "other-user"

\* The contents the handlers hand to the store: bodies that decode.
StoredContents == {TxtEmptyObj, TxtOneTwo}

\* Two users of the bags store.
BagOwners == {AddUsernameSuffix(TestUser), AddUsernameSuffix(OtherUser)}

\* An AddBag whose database gives every bag the same id.
AddBagSameId(B, n, username, contents) ==
    B \cup {[id |-> BagIDText(1), owner |-> username, contents |-> contents]}

\* INSERT INTO bags (contents, user_id) VALUES ($1, $2) RETURNING id
AddBag(B, n, username, contents) ==
    B \cup {[id |-> BagIDText(n), owner |-> username, contents |-> contents]}

\* UPDATE ONLY bags SET contents = $1 WHERE id = $2 and user_id = $3
UpdateBag(B, username, bagID, contents) ==
    { IF b.id = bagID /\ b.owner = username
      THEN [b EXCEPT !.contents = contents] ELSE b : b \in B }

\* A DeleteBag whose DELETE names the bag by its id alone.
DeleteBagAnyOwner(B, username, bagID) == { b \in B : b.id # bagID }

\* DELETE FROM ONLY bags WHERE id = $1 and user_id = $2
DeleteBag(B, username, bagID) ==
    { b \in B : ~(b.id = bagID /\ b.owner = username) }

\* DELETE FROM ONLY bags WHERE user_id = $1
DeleteAllBags(B, username) == { b \in B : b.owner # username }

\* A SetDefaultBag whose INSERT has no ON CONFLICT clause.
SetDefaultBagInsertOnly(D, username, bagID) ==
    D \cup {[user |-> username, bag |-> bagID]}

\* INSERT INTO default_bags VALUES ($1, $2)
\*     ON CONFLICT (user_id) DO UPDATE SET bag_id = $2
SetDefaultBag(D, username, bagID) ==
    IF \E d \in D : d.user = username
    THEN { IF d.user = username THEN [d EXCEPT !.bag = bagID] ELSE d : d \in D }
    ELSE D \cup {[user |-> username, bag |-> bagID]}

\* A HasBags that finds bags whoever is asked about.
HasBagsAlways(username) == TRUE

\* SELECT count(*) FROM bags b, users u WHERE ... u.username = $1
HasBags(username) == BagsOf(username) # {}

\* HasDefaultBag: its query reads "FROM default_bags d users u", with no
\* comma or JOIN between the two tables.  PostgreSQL rejects the statement,
\* so the method returns an error for every username and every table.
SyntaxErrText == "pq: syntax error at or near \"users\""

HasDefaultBag(username) ==
    [err |-> TRUE, msg |-> SyntaxErrText, found |-> FALSE]

\* The result of a method that may write: an error or a bag id, and the
\* tables it leaves.
ApiResult(err, msg, id, B, n, D) ==
    [err |-> err, msg |-> msg, id |-> id, bags |-> B, next |-> n,
     defaults |-> D]

ApiError(msg) == ApiResult(TRUE, msg, "", bags, nextBag, defaults)

\* createDefaultBag: AddBag with the contents {}, then SetDefaultBag.
createDefaultBag(username) ==
    IF ~isUser(username) THEN ApiError(NoRowsErrText)
    ELSE ApiResult(FALSE, "", BagIDText(nextBag),
                   AddBag(bags, nextBag, username, TxtEmptyObj),
                   nextBag + 1,
                   SetDefaultBag(defaults, username, BagIDText(nextBag)))

\* GetDefaultBag: HasDefaultBag; without a default createDefaultBag,
\* otherwise the bag the marker of the user joins to.
GetDefaultBag(username) ==
    LET has == HasDefaultBag(username)
        marked == { b \in bags :
                      \E d \in defaults : d.user = username /\ d.bag = b.id }
    IN  IF has.err THEN ApiError(has.msg)
        ELSE IF ~has.found THEN createDefaultBag(username)
        ELSE IF marked = {} THEN ApiError(NoRowsErrText)
        ELSE ApiResult(FALSE, "", (CHOOSE b \in marked : TRUE).id,
                       bags, nextBag, defaults)

\* UpdateDefaultBag: GetDefaultBag, then UpdateBag of the bag it returns.
UpdateDefaultBag(username, contents) ==
    LET got == GetDefaultBag(username) IN
    IF got.err THEN got
    ELSE IF ~isUser(username)
    THEN ApiResult(TRUE, NoRowsErrText, "", got.bags, got.next, got.defaults)
    ELSE ApiResult(FALSE, "", got.id,
                   UpdateBag(got.bags, username, got.id, contents),
                   got.next, got.defaults)

\* DeleteDefaultBag: GetDefaultBag, then DeleteBag of the bag it returns.
DeleteDefaultBag(username) ==
    LET got == GetDefaultBag(username) IN
    IF got.err THEN got
    ELSE IF ~isUser(username)
    THEN ApiResult(TRUE, NoRowsErrText, "", got.bags, got.next, got.defaults)
    ELSE ApiResult(FALSE, "", got.id,
                   DeleteBag(got.bags, username, got.id),
                   got.next, got.defaults)

\* The bag ids the markers of a user name.
MarkedBy(username) == { d.bag : d \in { e \in defaults : e.user = username } }

\* A call, its result, and the bags the user's markers named before it.
Called(op, username, bagID, err, msg) ==
    [op |-> op, user |-> username, bag |-> bagID, err |-> err, msg |-> msg,
     prev |-> MarkedBy(username)]

\* A bags request arrives.
StartBagRequest(p, h, username, bagID, body) ==
    /\ nreq < MaxReqs
    /\ NoneDone
    /\ focus = "bags"
    /\ Free(p)
    /\ \A q \in Procs : q < p => ~Free(q)
    /\ req' = [req EXCEPT ![p] =
                  [Idle EXCEPT !.app = "bags", !.h = h, !.user = username,
                               !.bagID = bagID, !.body = body,
                               !.pc = "getUser"]]
    /\ nreq' = nreq + 1
    /\ UNCHANGED <<users, tbl, lastWrite, deleted, focus, cv, bags, nextBag,
                 defaults, call>>

\* The user management removes a user who owns no bag.
DropBagUser(username) ==
    /\ NoneDone
    /\ focus = "bags"
    /\ username \in users
    /\ BagsOf(username) = {}
    /\ users' = users \ {username}
    /\ UNCHANGED <<tbl, req, nreq, lastWrite, deleted, focus, cv, bags, nextBag,
                 defaults, call>>

\* The step that follows getUser in each handler.
AfterGetUser(h) ==
    CASE h = "GetBag" -> "hasBag"
      [] h = "AddBag" -> "addBag"
      [] h = "DeleteAllBags" -> "deleteAll"
      [] h = "UpdateBag" -> "hasBag"
      [] h = "DeleteBag" -> "deleteBag"
      [] h = "HasBags" -> "hasBags"
      [] h = "GetDefaultBag" -> "getDefault"
      [] h = "UpdateDefaultBag" -> "updateDefault"
      [] h = "DeleteDefaultBag" -> "deleteDefault"

\* The step that follows HasBag in GetBag and in UpdateBag.
AfterHasBag(h) == IF h = "GetBag" THEN "getBag" ELSE "updateBag"

\* GetBag, AddBag, DeleteAllBags: getUser; its error is written with
\* http.Error and the handler goes on (there is no return).
BagsGetUser(p) ==
    /\ NoneDone
    /\ req[p].pc = "getUser" /\ req[p].app = "bags"
    /\ \E fail \in BOOLEAN :
          LET r == req[p]
              got == getUser(r.user, fail)
              answered == IF got.err
                          THEN httpError([r EXCEPT !.storeErr = fail],
                                         got.msg, got.status)
                          ELSE r
          IN  req' = [req EXCEPT ![p] =
                  [answered EXCEPT !.uname = got.username,
                                   !.pc = AfterGetUser(r.h)]]
    /\ UNCHANGED <<users, tbl, nreq, lastWrite, deleted, focus, cv, bags, nextBag,
                 defaults, call>>

\* GetBag, UpdateBag: HasBag(username, bagID).
BagsHasBag(p) ==
    /\ NoneDone
    /\ req[p].pc = "hasBag" /\ req[p].app = "bags"
    /\ \E fail \in BOOLEAN :
          LET r == req[p] IN
          req' = [req EXCEPT ![p] =
              IF fail
              THEN Return(badRequest([r EXCEPT !.storeErr = TRUE],
                       "error checking database for bag " \o r.bagID
                           \o " for " \o r.uname \o ": " \o StoreErrText))
              ELSE IF ~HasBag(r.uname, r.bagID)
              THEN Return(httpError(r, "bag " \o r.bagID
                              \o " not found for user " \o r.uname,
                              StatusNotFound))
              ELSE [r EXCEPT !.pc = AfterHasBag(r.h)]]
    /\ UNCHANGED <<users, tbl, nreq, lastWrite, deleted, focus, cv, bags, nextBag,
                 defaults, call>>

\* GetBag: GetBag(username, bagID) and the bag as JSON.
BagsGetBag(p) ==
    /\ NoneDone
    /\ req[p].pc = "getBag" /\ req[p].app = "bags"
    /\ \E fail \in BOOLEAN :
          LET r == req[p]
              found == { b \in BagsOf(r.uname) : b.id = r.bagID }
              msg == "error getting bags for " \o r.uname \o ": "
          IN  req' = [req EXCEPT ![p] =
                  IF fail THEN StoreFailed(r, msg)
                  ELSE IF found = {}
                  THEN Return(errored(r, msg \o NoRowsErrText))
                  ELSE Return(Write(r, MarshalBag(CHOOSE b \in found : TRUE)))]
    /\ UNCHANGED <<users, tbl, nreq, lastWrite, deleted, focus, cv, bags, nextBag,
                 defaults, call>>

\* AddBag: the body is decoded, then AddBag(username, body) resolves the
\* user id and inserts the bag.
BagsAddBag(p) ==
    /\ NoneDone
    /\ req[p].pc = "addBag" /\ req[p].app = "bags"
    /\ \E fail \in BOOLEAN :
          LET r == req[p]
              msg == "failed to add bag for " \o r.uname \o ": "
          IN
          IF UnmarshalBagErr(r.body)
          THEN /\ req' = [req EXCEPT ![p] =
                     Return(badRequest(r, "failed to JSON decode body: "
                                              \o UnmarshalErrText(r.body)))]
               /\ UNCHANGED <<bags, nextBag, call>>
          ELSE IF fail \/ ~isUser(r.uname)
          THEN /\ req' = [req EXCEPT ![p] =
                     IF fail THEN StoreFailed(r, msg)
                     ELSE Return(errored(r, msg \o NoRowsErrText))]
               /\ UNCHANGED <<bags, nextBag, call>>
          ELSE /\ bags' = AddBag(bags, nextBag, r.uname, r.body)
               /\ nextBag' = nextBag + 1
               /\ call' = Called("AddBag", r.uname, BagIDText(nextBag),
                                 FALSE, "")
               /\ req' = [req EXCEPT ![p] =
                     Return(Write(r,
                         Marshal(Obj([id |-> Str(BagIDText(nextBag))]))))]
    /\ UNCHANGED <<users, tbl, nreq, lastWrite, deleted, focus, cv, defaults>>

\* DeleteAllBags: DeleteAllBags(username) resolves the user id and deletes
\* the user's bags.
BagsDeleteAllBags(p) ==
    /\ NoneDone
    /\ req[p].pc = "deleteAll" /\ req[p].app = "bags"
    /\ \E fail \in BOOLEAN :
          LET r == req[p]
              msg == "error deleting bag for user " \o r.uname \o ": "
          IN
          IF fail \/ ~isUser(r.uname)
          THEN /\ req' = [req EXCEPT ![p] =
                     IF fail THEN StoreFailed(r, msg)
                     ELSE Return(errored(r, msg \o NoRowsErrText))]
               /\ UNCHANGED <<bags, call>>
          ELSE /\ bags' = DeleteAllBags(bags, r.uname)
               /\ call' = Called("DeleteAllBags", r.uname, "", FALSE, "")
               /\ req' = [req EXCEPT ![p] = Return(r)]
    /\ UNCHANGED <<users, tbl, nreq, lastWrite, deleted, focus, cv, nextBag,
                   defaults>>

\* The bags before the first request: none, or one empty bag of the test
\* user.
InitBags ==
    /\ users = BagUsers
    /\ focus = "bags"
    /\ tbl = NoRows
    /\ req = [p \in Procs |-> Idle]
    /\ nreq = 0
    /\ lastWrite = [app \in Apps |-> [u \in Usernames |-> ""]]
    /\ deleted = [app \in Apps |-> [u \in Usernames |-> FALSE]]
    /\ cv = NoCv
    /\ defaults = {}
    /\ call = NoCall
    /\ \/ bags = {} /\ nextBag = 1
       \/ /\ bags = {[id |-> BagIDText(1),
                      owner |-> AddUsernameSuffix(TestUser),
                      contents |-> TxtEmptyObj]}
          /\ nextBag = 2

HandleBags ==
    \E p \in Procs :
        \/ Respond(p)
        \/ BagsGetUser(p)
        \/ BagsHasBag(p)
        \/ BagsGetBag(p)
        \/ BagsAddBag(p)
        \/ BagsDeleteAllBags(p)

NextBags ==
    \/ \E p \in Procs, h \in BagHandlers, u \in BagUrlNames :
          \E bagID \in (IF h = "GetBag" THEN BagIDs ELSE {""}) :
              \E body \in (IF h = "AddBag" THEN BagBodies ELSE {""}) :
                  StartBagRequest(p, h, u, bagID, body)
    \/ \E u \in BagUsers : DropBagUser(u)
    \/ HandleBags

SpecBags == InitBags /\ [][NextBags]_vars

(***************************************************************************)
(* BagsApp: the handlers of single bags, of the HEAD probe and of the      *)
(* default bag.  Each starts with BagsGetUser.                             *)
(***************************************************************************)
ItemHandlers == {"GetBag", "UpdateBag", "DeleteBag", "AddBag",
                 "DeleteAllBags", "HasBags"}
DefaultHandlers == {"GetDefaultBag", "UpdateDefaultBag", "DeleteDefaultBag",
                    "DeleteBag", "DeleteAllBags"}

\* writer.WriteHeader(code): the first status written stands.
WriteHeader(r, code) ==
    [r EXCEPT !.status = IF r.status = 0 THEN code ELSE r.status]

\* HasBags: HasBags(username), then 200 or 404 and no body.
BagsHasBags(p) ==
    /\ NoneDone
    /\ req[p].pc = "hasBags" /\ req[p].app = "bags"
    /\ \E fail \in BOOLEAN :
          LET r == req[p] IN
          req' = [req EXCEPT ![p] =
              IF fail
              THEN StoreFailed(r, "error looking for bags for " \o r.uname
                                      \o ": ")
              ELSE IF ~HasBags(r.uname)
              THEN Return(WriteHeader(r, StatusNotFound))
              ELSE Return(WriteHeader(r, StatusOK))]
    /\ UNCHANGED <<users, tbl, nreq, lastWrite, deleted, focus, cv, bags, nextBag,
                   defaults, call>>

\* UpdateBag: the body is decoded, then UpdateBag(username, bagID, body).
BagsUpdateBag(p) ==
    /\ NoneDone
    /\ req[p].pc = "updateBag" /\ req[p].app = "bags"
    /\ \E fail \in BOOLEAN :
          LET r == req[p]
              msg == "error updating bag for user " \o r.uname \o ": "
          IN
          IF UnmarshalBagErr(r.body)
          THEN /\ req' = [req EXCEPT ![p] =
                     Return(errored(r, "failed to JSON decode body: "
                                           \o UnmarshalErrText(r.body)))]
               /\ UNCHANGED <<bags, call>>
          ELSE IF fail \/ ~isUser(r.uname)
          THEN /\ req' = [req EXCEPT ![p] =
                     IF fail THEN StoreFailed(r, msg)
                     ELSE Return(errored(r, msg \o NoRowsErrText))]
               /\ UNCHANGED <<bags, call>>
          ELSE /\ bags' = UpdateBag(bags, r.uname, r.bagID, r.body)
               /\ call' = Called("UpdateBag", r.uname, r.bagID, FALSE, "")
               /\ req' = [req EXCEPT ![p] = Return(r)]
    /\ UNCHANGED <<users, tbl, nreq, lastWrite, deleted, focus, cv, nextBag,
                   defaults>>

\* DeleteBag: DeleteBag(username, bagID); there is no HasBag check.
BagsDeleteBag(p) ==
    /\ NoneDone
    /\ req[p].pc = "deleteBag" /\ req[p].app = "bags"
    /\ \E fail \in BOOLEAN :
          LET r == req[p]
              msg == "error deleting bag for user " \o r.uname \o ": "
          IN
          IF fail \/ ~isUser(r.uname)
          THEN /\ req' = [req EXCEPT ![p] =
                     IF fail THEN StoreFailed(r, msg)
                     ELSE Return(errored(r, msg \o NoRowsErrText))]
               /\ UNCHANGED <<bags, call>>
          ELSE /\ bags' = DeleteBag(bags, r.uname, r.bagID)
               /\ call' = Called("DeleteBag", r.uname, r.bagID, FALSE, "")
               /\ req' = [req EXCEPT ![p] = Return(r)]
    /\ UNCHANGED <<users, tbl, nreq, lastWrite, deleted, focus, cv, nextBag,
                   defaults>>

\* The handler's answer to an error of a default-bag method.
DefaultFailed(r, msg, got) ==
    Return(errored(r, msg \o r.uname \o ": " \o got.msg))

\* What a default-bag method leaves, the connection to the database failing
\* or not.
DefaultCall(fail, got) == IF fail THEN ApiError(StoreErrText) ELSE got

\* GetDefaultBag: GetDefaultBag(username) and the bag as JSON.
BagsGetDefaultBag(p) ==
    /\ NoneDone
    /\ req[p].pc = "getDefault" /\ req[p].app = "bags"
    /\ \E fail \in BOOLEAN :
          LET r == [req[p] EXCEPT !.storeErr = @ \/ fail]
              got == DefaultCall(fail, GetDefaultBag(r.uname))
              found == { b \in got.bags : b.id = got.id }
          IN
          /\ bags' = got.bags
          /\ nextBag' = got.next
          /\ defaults' = got.defaults
          /\ req' = [req EXCEPT ![p] =
                IF got.err
                THEN DefaultFailed(r, "error getting default bag for ", got)
                ELSE Return(Write(r, MarshalBag(CHOOSE b \in found : TRUE)))]
    /\ UNCHANGED <<users, tbl, nreq, lastWrite, deleted, focus, cv, call>>

\* UpdateDefaultBag: the body is decoded, then UpdateDefaultBag(username,
\* body).
BagsUpdateDefaultBag(p) ==
    /\ NoneDone
    /\ req[p].pc = "updateDefault" /\ req[p].app = "bags"
    /\ \E fail \in BOOLEAN :
          LET r == [req[p] EXCEPT !.storeErr = @ \/ fail]
              got == DefaultCall(fail, UpdateDefaultBag(r.uname, r.body))
          IN
          IF UnmarshalBagErr(r.body)
          THEN /\ req' = [req EXCEPT ![p] =
                     Return(errored(req[p], "failed to JSON decode body: "
                                               \o UnmarshalErrText(r.body)))]
               /\ UNCHANGED <<bags, nextBag, defaults>>
          ELSE /\ bags' = got.bags
               /\ nextBag' = got.next
               /\ defaults' = got.defaults
               /\ req' = [req EXCEPT ![p] =
                     IF got.err
                     THEN DefaultFailed(r, "error updating default bag for user ",
                                        got)
                     ELSE Return(r)]
    /\ UNCHANGED <<users, tbl, nreq, lastWrite, deleted, focus, cv, call>>

\* DeleteDefaultBag: DeleteDefaultBag(username).
BagsDeleteDefaultBag(p) ==
    /\ NoneDone
    /\ req[p].pc = "deleteDefault" /\ req[p].app = "bags"
    /\ \E fail \in BOOLEAN :
          LET r == [req[p] EXCEPT !.storeErr = @ \/ fail]
              got == DefaultCall(fail, DeleteDefaultBag(r.uname))
          IN
          /\ bags' = got.bags
          /\ nextBag' = got.next
          /\ defaults' = got.defaults
          /\ req' = [req EXCEPT ![p] =
                IF got.err
                THEN DefaultFailed(r, "error deleting default bag for user ",
                                   got)
                ELSE Return(r)]
    /\ UNCHANGED <<users, tbl, nreq, lastWrite, deleted, focus, cv, call>>

(***************************************************************************)
(* The handlers of single bags with two users in the store: requests are   *)
(* made for the test user and for a username that is no user, and name the *)
(* test user's bags as well as the other user's.                           *)
(***************************************************************************)
Bag(n, username, contents) ==
    [id |-> BagIDText(n), owner |-> username, contents |-> contents]

InitItems ==
    /\ users = BagOwners
    /\ focus = "bags"
    /\ tbl = NoRows
    /\ req = [p \in Procs |-> Idle]
    /\ nreq = 0
    /\ lastWrite = [app \in Apps |-> [u \in Usernames |-> ""]]
    /\ deleted = [app \in Apps |-> [u \in Usernames |-> FALSE]]
    /\ cv = NoCv
    /\ call = NoCall
    /\ \/ /\ bags = {Bag(1, AddUsernameSuffix(OtherUser), TxtEmptyObj)}
          /\ defaults = {[user |-> AddUsernameSuffix(OtherUser),
                          bag |-> BagIDText(1)]}
          /\ nextBag = 2
       \/ /\ bags = {Bag(1, AddUsernameSuffix(TestUser), TxtEmptyObj),
                     Bag(2, AddUsernameSuffix(OtherUser), TxtEmptyObj)}
          /\ defaults = {[user |-> AddUsernameSuffix(OtherUser),
                          bag |-> BagIDText(2)]}
          /\ nextBag = 3

\* The bodies sent with a request to a single-bag handler.
ItemBodies(h, bagID) ==
    CASE h = "AddBag" -> {TxtOneTwo}
      [] h = "UpdateBag" ->
            IF bagID = BagIDText(1) THEN BagBodies ELSE {TxtOneTwo}
      [] OTHER -> {""}

HandleItems ==
    \E p \in Procs :
        \/ Respond(p)
        \/ BagsGetUser(p)
        \/ BagsHasBag(p)
        \/ BagsGetBag(p)
        \/ BagsUpdateBag(p)
        \/ BagsDeleteBag(p)
        \/ BagsAddBag(p)
        \/ BagsDeleteAllBags(p)
        \/ BagsHasBags(p)

NextItems ==
    \/ \E p \in Procs, h \in ItemHandlers, u \in {TestUser, Nobody} :
          \E bagID \in (IF h \in {"GetBag", "UpdateBag", "DeleteBag"}
                        THEN BagIDs ELSE {""}) :
              \E body \in ItemBodies(h, bagID) :
                  StartBagRequest(p, h, u, bagID, body)
    \/ HandleItems

SpecItems == InitItems /\ [][NextItems]_vars

(***************************************************************************)
(* The handlers of the default bag, with DeleteBag and DeleteAllBags.  The *)
(* store may hold a default bag made before the service started.           *)
(***************************************************************************)
InitDefaults ==
    /\ users = BagUsers
    /\ focus = "bags"
    /\ tbl = NoRows
    /\ req = [p \in Procs |-> Idle]
    /\ nreq = 0
    /\ lastWrite = [app \in Apps |-> [u \in Usernames |-> ""]]
    /\ deleted = [app \in Apps |-> [u \in Usernames |-> FALSE]]
    /\ cv = NoCv
    /\ call = NoCall
    /\ \/ bags = {} /\ nextBag = 1 /\ defaults = {}
       \/ /\ bags = {Bag(1, AddUsernameSuffix(TestUser), TxtEmptyObj)}
          /\ nextBag = 2
          /\ defaults = {[user |-> AddUsernameSuffix(TestUser),
                          bag |-> BagIDText(1)]}

HandleDefaults ==
    \E p \in Procs :
        \/ Respond(p)
        \/ BagsGetUser(p)
        \/ BagsGetDefaultBag(p)
        \/ BagsUpdateDefaultBag(p)
        \/ BagsDeleteDefaultBag(p)
        \/ BagsDeleteBag(p)
        \/ BagsDeleteAllBags(p)

NextDefaults ==
    \/ \E p \in Procs, h \in DefaultHandlers, u \in {TestUser, Nobody} :
          \E bagID \in (IF h = "DeleteBag" THEN {BagIDText(1)} ELSE {""}) :
              \E body \in (IF h = "UpdateDefaultBag" THEN BagBodies
                           ELSE {""}) :
                  StartBagRequest(p, h, u, bagID, body)
    \/ \E u \in BagUsers : DropBagUser(u)
    \/ HandleDefaults

SpecDefaults == InitDefaults /\ [][NextDefaults]_vars

(***************************************************************************)
(* The methods of BagsAPI called one after another, each call as a whole.  *)
(***************************************************************************)

\* What every call leaves alone.
CallFrame ==
    /\ nreq < MaxCalls
    /\ focus = "bagsapi"
    /\ nreq' = nreq + 1
    /\ UNCHANGED <<users, tbl, req, lastWrite, deleted, focus, cv>>

CallAddBag(username, contents) ==
    /\ CallFrame
    /\ \E fail \in BOOLEAN :
          IF fail \/ ~isUser(username)
          THEN /\ call' = Called("AddBag", username, "", TRUE,
                                 IF fail THEN StoreErrText ELSE NoRowsErrText)
               /\ UNCHANGED <<bags, nextBag>>
          ELSE /\ bags' = AddBag(bags, nextBag, username, contents)
               /\ nextBag' = nextBag + 1
               /\ call' = Called("AddBag", username, BagIDText(nextBag),
                                 FALSE, "")
    /\ UNCHANGED defaults

\* SetDefaultBag is called with the id of a bag of the user, as
\* createDefaultBag calls it.
CallSetDefaultBag(username, bagID) ==
    /\ CallFrame
    /\ HasBag(username, bagID)
    /\ \E fail \in BOOLEAN :
          IF fail \/ ~isUser(username)
          THEN /\ call' = Called("SetDefaultBag", username, bagID, TRUE,
                                 IF fail THEN StoreErrText ELSE NoRowsErrText)
               /\ UNCHANGED defaults
          ELSE /\ defaults' = SetDefaultBag(defaults, username, bagID)
               /\ call' = Called("SetDefaultBag", username, bagID, FALSE, "")
    /\ UNCHANGED <<bags, nextBag>>

CallUpdateBag(username, bagID, contents) ==
    /\ CallFrame
    /\ \E fail \in BOOLEAN :
          IF fail \/ ~isUser(username)
          THEN /\ call' = Called("UpdateBag", username, bagID, TRUE,
                                 IF fail THEN StoreErrText ELSE NoRowsErrText)
               /\ UNCHANGED bags
          ELSE /\ bags' = UpdateBag(bags, username, bagID, contents)
               /\ call' = Called("UpdateBag", username, bagID, FALSE, "")
    /\ UNCHANGED <<nextBag, defaults>>

CallDeleteBag(username, bagID) ==
    /\ CallFrame
    /\ \E fail \in BOOLEAN :
          IF fail \/ ~isUser(username)
          THEN /\ call' = Called("DeleteBag", username, bagID, TRUE,
                                 IF fail THEN StoreErrText ELSE NoRowsErrText)
               /\ UNCHANGED bags
          ELSE /\ bags' = DeleteBag(bags, username, bagID)
               /\ call' = Called("DeleteBag", username, bagID, FALSE, "")
    /\ UNCHANGED <<nextBag, defaults>>

CallDeleteAllBags(username) ==
    /\ CallFrame
    /\ \E fail \in BOOLEAN :
          IF fail \/ ~isUser(username)
          THEN /\ call' = Called("DeleteAllBags", username, "", TRUE,
                                 IF fail THEN StoreErrText ELSE NoRowsErrText)
               /\ UNCHANGED bags
          ELSE /\ bags' = DeleteAllBags(bags, username)
               /\ call' = Called("DeleteAllBags", username, "", FALSE, "")
    /\ UNCHANGED <<nextBag, defaults>>

\* A method that returns an ApiResult leaves the tables of its result.
CallResult(op, username, got) ==
    /\ CallFrame
    /\ bags' = got.bags
    /\ nextBag' = got.next
    /\ defaults' = got.defaults
    /\ call' = Called(op, username, got.id, got.err, got.msg)

CallGetDefaultBag(username) ==
    CallResult("GetDefaultBag", username, GetDefaultBag(username))

CallUpdateDefaultBag(username, contents) ==
    CallResult("UpdateDefaultBag", username,
               UpdateDefaultBag(username, contents))

CallDeleteDefaultBag(username) ==
    CallResult("DeleteDefaultBag", username, DeleteDefaultBag(username))

InitBagsAPI ==
    /\ users = BagOwners
    /\ focus = "bagsapi"
    /\ tbl = NoRows
    /\ req = [p \in Procs |-> Idle]
    /\ nreq = 0
    /\ lastWrite = [app \in Apps |-> [u \in Usernames |-> ""]]
    /\ deleted = [app \in Apps |-> [u \in Usernames |-> FALSE]]
    /\ cv = NoCv
    /\ bags = {}
    /\ nextBag = 1
    /\ defaults = {}
    /\ call = NoCall

NextBagsAPI ==
    \E username \in BagOwners :
        \/ \E contents \in StoredContents : CallAddBag(username, contents)
        \/ \E bagID \in BagIDs : CallSetDefaultBag(username, bagID)
        \/ \E bagID \in BagIDs, contents \in StoredContents :
              CallUpdateBag(username, bagID, contents)
        \/ \E bagID \in BagIDs : CallDeleteBag(username, bagID)
        \/ CallDeleteAllBags(username)
        \/ CallGetDefaultBag(username)
        \/ \E contents \in StoredContents :
              CallUpdateDefaultBag(username, contents)
        \/ CallDeleteDefaultBag(username)

SpecBagsAPI == InitBagsAPI /\ [][NextBagsAPI]_vars

(***************************************************************************)
(* The converters on their own: a payload, a wrap flag and an app are      *)
(* chosen, the app's converter is applied, and it is applied again to its  *)
(* own result as json.Marshal writes it.                                   *)
(***************************************************************************)
\* The payloads tried on each converter.
PayloadsOf(app) ==
    IF app = "preferences"
    THEN { TxtEmpty, TxtGarbage, TxtNull, TxtArray, TxtEmptyObj, TxtOneTwo,
           TxtOneTwoSpaced, TxtPrefsWrapped, TxtPrefsNum, TxtPrefsNull,
           TxtPrefsMixed, TxtPrefsEmpty }
    ELSE { TxtEmpty, TxtGarbage, TxtNull, TxtArray, TxtEmptyObj, TxtOneTwo,
           TxtOneTwoSpaced, TxtSessWrapped, TxtSessNum, TxtSessNull,
           TxtSessMixed, TxtSessEmpty }

convert(app, payload, wrap) ==
    IF app = "preferences" THEN convertPrefs(payload, wrap)
    ELSE convertSessions(payload, wrap)

EnvelopeKey(app) == IF app = "preferences" THEN "preferences" ELSE "session"

InitConv ==
    /\ users = {TestUser}
    /\ tbl = NoRows
    /\ req = [p \in Procs |-> Idle]
    /\ nreq = 0
    /\ lastWrite = [app \in Apps |-> [u \in Usernames |-> ""]]
    /\ deleted = [app \in Apps |-> [u \in Usernames |-> FALSE]]
    /\ bags = {}
    /\ nextBag = 1
    /\ defaults = {}
    /\ call = NoCall
    /\ \E app \in EnvelopeApps, wrap \in BOOLEAN :
        \E payload \in PayloadsOf(app) :
          /\ focus = app
          /\ cv = [NoCv EXCEPT !.phase = "input", !.app = app,
                               !.payload = payload, !.wrap = wrap]

ConvApply ==
    /\ cv.phase = "input"
    /\ cv' = [cv EXCEPT !.phase = "first",
                        !.first = convert(cv.app, cv.payload, cv.wrap)]
    /\ UNCHANGED <<users, tbl, req, nreq, lastWrite, deleted, focus, bags, nextBag,
                 defaults, call>>

ConvAgain ==
    /\ cv.phase = "first"
    /\ cv.first.kind = "ok"
    /\ cv' = [cv EXCEPT !.phase = "again",
                        !.again = convert(cv.app, Marshal(cv.first.val), cv.wrap)]
    /\ UNCHANGED <<users, tbl, req, nreq, lastWrite, deleted, focus, bags, nextBag,
                 defaults, call>>

NextConv == ConvApply \/ ConvAgain

SpecConv == InitConv /\ [][NextConv]_vars

(***************************************************************************)
(* Properties of the converters (specification SpecConv).                  *)
(***************************************************************************)
Applied == cv.phase \in {"first", "again"}

\* What the payload under conversion decodes to, and whether that is a JSON
\* object.
CvParsed == Decode(cv.payload).v
CvIsObject == Decode(cv.payload).ok /\ CvParsed.k = "obj"
CvKey == EnvelopeKey(cv.app)

\* C6: with wrap = false, a payload that parses to a mapping is converted to
\* the value under the envelope key if it has that key and to the mapping
\* itself otherwise, and the call returns normally whatever the key holds.
C6_UnwrapReturnsNormally ==
    (Applied /\ ~cv.wrap /\ CvIsObject) =>
        /\ cv.first.kind # "panic"
        /\ HasKey(CvParsed, CvKey) => cv.first = ConvOk(CvParsed.m[CvKey])
        /\ ~HasKey(CvParsed, CvKey) => cv.first = ConvOk(CvParsed)

\* C7: with wrap = true, a payload that parses to a mapping without the
\* envelope key is converted to {envelopeKey: mapping}, one with the key to
\* the mapping itself; converting the result again changes nothing.
C7_WrapIdempotent ==
    (Applied /\ cv.wrap /\ CvIsObject) =>
        /\ ~HasKey(CvParsed, CvKey) =>
              /\ cv.first.kind = "ok"
              /\ cv.first.val.k = "obj"
              /\ DOMAIN cv.first.val.m = {CvKey}
              /\ cv.first.val.m[CvKey] = CvParsed
        /\ HasKey(CvParsed, CvKey) => cv.first = ConvOk(CvParsed)
        /\ cv.phase = "again" =>
              /\ cv.again.kind = "ok"
              /\ Marshal(cv.again.val) = Marshal(cv.first.val)

\* C7 witness: {"one":"two"} was wrapped, and wrapping the result again gave
\* the same {"preferences":{"one":"two"}}.
C7_Witness ==
    /\ cv.phase = "again" /\ cv.wrap /\ cv.app = "preferences"
    /\ cv.payload = TxtOneTwo
    /\ Marshal(cv.first.val) = TxtPrefsWrapped
    /\ Marshal(cv.again.val) = TxtPrefsWrapped

\* C8: the empty payload is converted without error, to an empty mapping
\* with wrap = false and to {envelopeKey: {}} (an empty object under the key,
\* not null) with wrap = true.
C8_EmptyPayloadIsEmptyMapping ==
    (Applied /\ cv.payload = TxtEmpty) =>
        /\ cv.first.kind = "ok"
        /\ ~cv.wrap => MapLen(cv.first.val) = 0
        /\ cv.wrap =>
              Marshal(cv.first.val) =
                  (IF cv.app = "preferences" THEN TxtPrefsEmpty ELSE TxtSessEmpty)

(***************************************************************************)
(* Properties of the handlers.  A handler that has returned (pc = "done")  *)
(* is answered before any other step, so in such a state the tables are    *)
(* those its last store call saw.                                          *)
(***************************************************************************)
RowCount(app, username) == BagCardinality(tbl[app][username])

\* The handler of slot p has returned from the given step without a store
\* failure.
ReturnedFrom(p, step) ==
    /\ req[p].pc = "done"
    /\ req[p].from = step
    /\ ~req[p].storeErr

\* {envelopeKey: value of the JSON text}, as json.Marshal writes it.
Wrapped(app, text) == Marshal(Obj(EnvelopeKey(app) :> Decode(text).v))

BodyHasKey(app, text) == HasKey(Decode(text).v, EnvelopeKey(app))

\* The user's rows are exactly one row holding the text.
OnlyRowIs(app, username, text) ==
    /\ RowCount(app, username) = 1
    /\ BagToSet(tbl[app][username]) = {text}

\* C1: a GET for a username that does not exist is answered 404 with the
\* body {"user":"<username>"}, on every resource.
C1_NonUserGetIs404 ==
    \A p \in Procs :
        (ReturnedFrom(p, "isUser") /\ req[p].h = "Get"
             /\ ~isUser(req[p].user)) =>
            /\ req[p].status = StatusNotFound
            /\ req[p].out =
                   Marshal(Obj([user |-> Str(req[p].user)])) \o "\n"

\* C2 as stated: after a write of body b was the last one executed for the
\* user, a GET answers 200 with b and the response of the write is
\* {envelopeKey: b}, for every JSON object b.
C2_RoundTripAnyObject ==
    \A p \in Procs :
        LET r == req[p] IN
        (r.pc = "done" /\ r.app \in EnvelopeApps /\ ~r.storeErr
             /\ lastWrite[r.app][r.user] # "") =>
            LET b == lastWrite[r.app][r.user] IN
            /\ (r.h = "Get" /\ r.from = "fetch") =>
                  /\ r.status = StatusOK /\ ~r.panicked
                  /\ r.out = Marshal(Decode(b).v)
            /\ (r.from = "refetch" /\ r.body = b) =>
                  /\ r.status = StatusOK /\ ~r.panicked
                  /\ r.out = Wrapped(r.app, b)

\* C2: after a write of body b was the last one executed for the user, b is
\* a JSON object without the envelope key at its top level and the user
\* holds a single row, a GET answers 200 with the JSON value of b and the
\* response of the write is {envelopeKey: b}.
C2_RoundTrip ==
    \A p \in Procs :
        LET r == req[p] IN
        (r.pc = "done" /\ r.app \in EnvelopeApps /\ ~r.storeErr
             /\ lastWrite[r.app][r.user] # ""
             /\ ~BodyHasKey(r.app, lastWrite[r.app][r.user])
             /\ RowCount(r.app, r.user) = 1) =>
            LET b == lastWrite[r.app][r.user] IN
            /\ (r.h = "Get" /\ r.from = "fetch") =>
                  /\ r.status = StatusOK /\ ~r.panicked
                  /\ r.out = Marshal(Decode(b).v)
            /\ (r.from = "refetch" /\ r.body = b) =>
                  /\ r.status = StatusOK /\ ~r.panicked
                  /\ r.out = Wrapped(r.app, b)

\* C2 witness: a GET answered {"one":"two"} after that body was PUT with
\* other spacing.
C2_Witness ==
    \E p \in Procs :
        /\ ReturnedFrom(p, "fetch") /\ req[p].h = "Get"
        /\ req[p].app = "preferences"
        /\ lastWrite["preferences"][req[p].user] = TxtOneTwoSpaced
        /\ RowCount("preferences", req[p].user) = 1
        /\ req[p].status = StatusOK
        /\ req[p].out = TxtOneTwo

\* C3: a step adds a row for a user only as the insert of a PUT/POST whose
\* has-record check found no record, and it adds one row, however many rows
\* the user has by then.
C3_InsertAfterNegativeCheck ==
    [][\A app \in Apps, u \in Usernames :
          BagCardinality(tbl'[app][u]) > BagCardinality(tbl[app][u]) =>
              /\ BagCardinality(tbl'[app][u]) = BagCardinality(tbl[app][u]) + 1
              /\ \E p \in Procs :
                    /\ req[p].pc = "upsert" /\ req'[p].pc # "upsert"
                    /\ req[p].app = app /\ req[p].user = u
                    /\ ~req[p].hasRec]_vars

\* C3 witness: two requests in flight for one user both saw no record, both
\* inserted, and the user has two preferences rows.
C3_Witness ==
    \E p, q \in Procs :
        /\ p # q
        /\ req[p].pc = "refetch" /\ req[q].pc = "refetch"
        /\ req[p].app = "preferences" /\ req[q].app = "preferences"
        /\ req[p].user = req[q].user
        /\ ~req[p].hasRec /\ ~req[q].hasRec
        /\ RowCount("preferences", req[p].user) = 2

AtMostOneRecord ==
    \A app \in Apps, u \in Usernames : RowCount(app, u) <= 1

\* A PUT/POST in slot p executes its write in this step.
Writes(p) ==
    /\ req[p].pc = "upsert"
    /\ \/ req'[p].pc = "refetch"
       \/ /\ req'[p].pc = "done" /\ req'[p].status = StatusOK
          /\ ~req'[p].storeErr

\* A DELETE in slot p executes its delete in this step.
Deletes(p) ==
    /\ req[p].pc = "delete"
    /\ req'[p].pc = "done" /\ req'[p].status = StatusOK
    /\ ~req'[p].storeErr

\* C4: when requests do not overlap, a user has at most one record of a
\* type at any time: a write leaves exactly one row holding its body (the
\* first inserts it, a later one changes it in place) and a DELETE leaves
\* none.
C4_SequentialSingleRecord ==
    /\ AtMostOneRecord
    /\ [][/\ AtMostOneRecord'
          /\ \A p \in Procs :
                /\ Writes(p) =>
                      /\ BagCardinality(tbl'[req[p].app][req[p].user]) = 1
                      /\ BagToSet(tbl'[req[p].app][req[p].user])
                             = {req[p].body}
                      /\ req[p].hasRec = (RowCount(req[p].app, req[p].user) = 1)
                /\ Deletes(p) =>
                      BagCardinality(tbl'[req[p].app][req[p].user]) = 0]_vars

\* C4 witness: the second request of a behaviour, a PUT that found a record,
\* has changed it in place and the user has one row.
C4_Witness ==
    \E p \in Procs :
        /\ ReturnedFrom(p, "refetch") /\ req[p].hasRec
        /\ nreq = 2
        /\ lastWrite[req[p].app][req[p].user] = req[p].body
        /\ OnlyRowIs(req[p].app, req[p].user, req[p].body)

\* C5 as stated: every PUT/POST answered 200 is answered with
\* {envelopeKey: its own body}.
C5_ResponseIsOwnBodyAlways ==
    \A p \in Procs :
        (req[p].pc = "done" /\ req[p].from = "refetch"
             /\ req[p].status = StatusOK /\ ~req[p].panicked) =>
            req[p].out = Wrapped(req[p].app, req[p].body)

\* C5: a PUT/POST whose re-fetch finds the user's only row holding the
\* request's own body is answered 200 with {envelopeKey: body}, or with the
\* body itself if it has the envelope key at its top level.
C5_ResponseIsOwnBody ==
    \A p \in Procs :
        LET r == req[p] IN
        (ReturnedFrom(p, "refetch") /\ OnlyRowIs(r.app, r.user, r.body)) =>
            /\ r.status = StatusOK /\ ~r.panicked
            /\ r.out = IF BodyHasKey(r.app, r.body)
                       THEN Marshal(Decode(r.body).v)
                       ELSE Wrapped(r.app, r.body)

\* C5 witness: a PUT of {"one":"two"} to sessions was answered
\* {"session":{"one":"two"}}.
C5_Witness ==
    \E p \in Procs :
        /\ ReturnedFrom(p, "refetch") /\ req[p].app = "sessions"
        /\ req[p].body = TxtOneTwo
        /\ OnlyRowIs("sessions", req[p].user, TxtOneTwo)
        /\ req[p].status = StatusOK
        /\ req[p].out = TxtSessWrapped

\* A payload the converters hand to json.Unmarshal and that is not JSON.
NotJSON(payload) == payload # "" /\ ~Decode(payload).ok

C10_NoRecordGetIsEmptyObject ==
    [][\A p \in Procs :
          (req[p].pc = "fetch" /\ req[p].h = "Get" /\ req'[p].pc = "done"
               /\ ~req'[p].storeErr
               /\ RowCount(req[p].app, req[p].user) = 0) =>
              /\ req'[p].status = StatusOK
              /\ ~req'[p].panicked
              /\ req'[p].out = "{}"
              /\ tbl' = tbl /\ users' = users]_vars

\* C10 witness: a GET of the test user's preferences found no row and was
\* answered 200 {}.
C10_Witness ==
    \E p \in Procs :
        /\ ReturnedFrom(p, "fetch") /\ req[p].h = "Get"
        /\ req[p].app = "preferences" /\ req[p].user = TestUser
        /\ RowCount("preferences", TestUser) = 0
        /\ req[p].status = StatusOK /\ req[p].out = "{}"

C13_DeleteNonUserIsSilent ==
    \A p \in Procs :
        (ReturnedFrom(p, "isUser") /\ req[p].h = "Delete"
             /\ ~isUser(req[p].user)) =>
            /\ req[p].status = StatusOK
            /\ req[p].out = ""

\* C14: a PUT/POST for an existing user whose body is not valid JSON is
\* answered 500 with the parse error as plain text, on preferences, sessions
\* and searches.
C14_MalformedBodyIs500 ==
    \A p \in Procs :
        LET r == req[p] IN
        (r.pc = "done" /\ r.h = "Post" /\ ~r.storeErr /\ isUser(r.user)
             /\ ~Decode(r.body).ok) =>
            /\ r.status = StatusInternalServerError
            /\ \E prefix \in {"Error parsing request body: ",
                              "Error parsing body: "} :
                  r.out = prefix \o UnmarshalErrText(r.body) \o "\n"

\* C15: a request during which a store call failed is answered 500.
C15_StoreFailureIs500 ==
    \A p \in Procs :
        (req[p].pc = "done" /\ req[p].storeErr) =>
            req[p].status = StatusInternalServerError

\* C16: every failure is terminal, in the bags handlers as in the others:
\* once a request has an error status written to its response it is over
\* (its handler has returned), so that no store call and no second error
\* message can follow.
C16_FailureIsTerminal ==
    \A p \in Procs :
        req[p].status \notin {0, StatusOK} => req[p].pc = "done"

\* What PostRequest answers a request whose body is what the store holds
\* for the user when the handler reads it back.
PostResponse(app, body) ==
    IF app = "searches"
    THEN Marshal(Obj([saved_searches |-> UnmarshalAny(body).v]))
    ELSE IF BodyHasKey(app, body) THEN Marshal(Decode(body).v)
    ELSE Wrapped(app, body)

\* C17: on preferences, sessions and searches a PUT is handled as a POST is:
\* both are served by PostRequest; the write of either updates the rows of a
\* user who has a record and inserts one row for a user who has none; and
\* either is answered, when it succeeds, with the same document for the
\* same body.
C17_PutIsPost ==
    /\ [](\A p \in Procs :
            LET r == req[p] IN
            r.method \in {"PUT", "POST"} =>
                /\ r.h = "Post"
                /\ (r.pc = "done" /\ r.from \in {"upsert", "refetch"}
                        /\ r.status = StatusOK /\ ~r.storeErr) =>
                       r.out = PostResponse(r.app, r.body))
    /\ [][\A p \in Procs :
            LET r == req[p] IN
            (Writes(p) /\ r.method \in {"PUT", "POST"}) =>
                /\ BagToSet(tbl'[r.app][r.user]) = {r.body}
                /\ BagCardinality(tbl'[r.app][r.user]) =
                       IF RowCount(r.app, r.user) > 0
                       THEN RowCount(r.app, r.user) ELSE 1]_vars

\* C17 witness: a PUT to sessions found a record, updated it in place and
\* was answered with the new document.
C17_Witness ==
    \E p \in Procs :
        /\ ReturnedFrom(p, "refetch") /\ req[p].method = "PUT"
        /\ req[p].app = "sessions" /\ req[p].hasRec
        /\ req[p].body = TxtOneTwo
        /\ lastWrite["sessions"][req[p].user] = TxtOneTwo
        /\ OnlyRowIs("sessions", req[p].user, TxtOneTwo)
        /\ req[p].status = StatusOK
        /\ req[p].out = TxtSessWrapped

\* C18: the insert, update and delete of every store resolve the username
\* when they are called; a request whose write or delete is called for a
\* username that no longer resolves fails with 500.
C18_UnresolvedWriteFails ==
    \A p \in Procs :
        (req[p].pc = "done" /\ req[p].from \in {"upsert", "delete"}
             /\ ~isUser(req[p].user)) =>
            req[p].status = StatusInternalServerError

C20_UpdateOfNothing ==
    /\ [][\A p \in Procs :
            LET r == req[p] IN
            (r.pc = "upsert" /\ r.hasRec /\ RowCount(r.app, r.user) = 0
                 /\ isUser(r.user) /\ req'[p] # r /\ ~req'[p].storeErr) =>
                /\ tbl' = tbl
                /\ Writes(p)]_vars
    /\ [](\A p \in Procs :
            LET r == req[p] IN
            (r.pc = "done" /\ r.from \in {"upsert", "refetch"} /\ ~r.storeErr
                 /\ r.hasRec /\ isUser(r.user)
                 /\ RowCount(r.app, r.user) = 0) =>
                r.status = StatusOK)

\* C20 witness: a PUT/POST to preferences that found a record was overtaken
\* by a DELETE; it has been answered 200 and the user has no record.
C20_Witness ==
    \E p \in Procs :
        /\ ReturnedFrom(p, "refetch") /\ req[p].app = "preferences"
        /\ req[p].hasRec
        /\ deleted["preferences"][req[p].user]
        /\ RowCount("preferences", req[p].user) = 0
        /\ req[p].status = StatusOK

\* C23: each user has at most one default-bag marker, whatever methods of
\* BagsAPI were called; a SetDefaultBag that succeeds leaves the user with
\* the one marker naming the bag it was given, also when the user had a
\* marker before.
C23_OneMarkerPerUser ==
    /\ \A u \in BagOwners : Cardinality(MarkedBy(u)) <= 1
    /\ \A u \in BagOwners :
          Cardinality({ d \in defaults : d.user = u }) <= 1
    /\ (call.op = "SetDefaultBag" /\ ~call.err) =>
          MarkedBy(call.user) = {call.bag}

\* C23 witness: SetDefaultBag was called for a user whose marker named
\* another bag, and the marker now names the new bag.
C23_Witness ==
    /\ call.op = "SetDefaultBag" /\ ~call.err
    /\ call.prev = {BagIDText(1)}
    /\ call.bag = BagIDText(2)
    /\ MarkedBy(call.user) = {BagIDText(2)}

\* C28: the default-bag marker of a user names a bag that exists and that
\* this user owns.
C28_MarkerNamesOwnBag ==
    \A d \in defaults : HasBag(d.user, d.bag)

\* A default-bag request of slot p has returned; its user exists and no
\* call to the database failed for a reason outside the service.
DefaultDone(p, h) ==
    /\ req[p].pc = "done" /\ req[p].h = h
    /\ ~req[p].storeErr
    /\ isUser(req[p].uname)

\* C21: a GET of the default bag for an existing user is answered 200 with
\* the user's default bag, which exists afterwards: a user without a default
\* bag has got a new, empty one.
C21_GetDefaultBagCreates ==
    \A p \in Procs :
        DefaultDone(p, "GetDefaultBag") =>
            /\ req[p].status = StatusOK
            /\ \E b \in BagsOf(req[p].uname) :
                  /\ MarkedBy(req[p].uname) = {b.id}
                  /\ req[p].out = MarshalBag(b)

\* C22: when the latest write to the bags of a user deleted the bag the
\* user's marker named, a GET of the default bag is answered 200 with a new,
\* empty bag, which the marker names afterwards.
C22_DeletedDefaultIsRecreated ==
    \A p \in Procs :
        (/\ DefaultDone(p, "GetDefaultBag")
         /\ call.op \in {"DeleteBag", "DeleteAllBags"}
         /\ call.user = req[p].uname
         /\ call.prev # {}
         /\ call.op = "DeleteBag" => call.bag \in call.prev) =>
            /\ req[p].status = StatusOK
            /\ \E b \in BagsOf(req[p].uname) :
                  /\ b.id \notin call.prev
                  /\ b.contents = TxtEmptyObj
                  /\ MarkedBy(req[p].uname) = {b.id}
                  /\ req[p].out = MarshalBag(b)

\* The handlers that call GetDefaultBag of the store.
UsesDefaultBag == {"GetDefaultBag", "UpdateDefaultBag", "DeleteDefaultBag"}

\* C29: default-bag requests for one user that run at the same time create
\* at most one bag in all (no other request creates one here), and each
\* succeeds, the user having exactly one marker when it returns.
C29_ConcurrentDefaultsAgree ==
    /\ nextBag <= 2
    /\ \A p, q \in Procs :
          (/\ p # q
           /\ \E h \in UsesDefaultBag : DefaultDone(p, h)
           /\ ~UnmarshalBagErr(req[p].body) \/ req[p].h # "UpdateDefaultBag"
           /\ req[q].h \in UsesDefaultBag
           /\ req[q].user = req[p].user) =>
              /\ req[p].status = StatusOK
              /\ Cardinality(MarkedBy(req[p].uname)) = 1

\* C24: HEAD /bags/{username} for an existing user is answered with no
\* body, 200 if the user owns a bag and 404 if not (so 404 once all the
\* user's bags are deleted); no step of the request changes the store.
C24_HeadProbe ==
    /\ [](\A p \in Procs :
            LET r == req[p] IN
            (r.pc = "done" /\ r.h = "HasBags" /\ ~r.storeErr
                 /\ r.uname # "") =>
                /\ r.out = ""
                /\ r.status = IF BagsOf(r.uname) # {} THEN StatusOK
                              ELSE StatusNotFound)
    /\ [][\A p \in Procs :
            (req[p].h = "HasBags" /\ req'[p] # req[p]) =>
                UNCHANGED <<bags, defaults, users, nextBag>>]_vars

\* C24 witness: the test user had a bag, the latest write deleted all the
\* user's bags, and the HEAD request is answered 404 without a body.
C24_Witness ==
    \E p \in Procs :
        /\ req[p].pc = "done" /\ req[p].h = "HasBags" /\ ~req[p].storeErr
        /\ req[p].uname = AddUsernameSuffix(TestUser)
        /\ nextBag >= 3
        /\ call.op = "DeleteAllBags" /\ call.user = req[p].uname
        /\ BagsOf(req[p].uname) = {}
        /\ req[p].status = StatusNotFound /\ req[p].out = ""

\* The user owns a bag with the id.
Owns(username, bagID) ==
    \E b \in bags : b.id = bagID /\ b.owner = username

\* C30: GetBag and UpdateBag of an existing user whose HasBag check runs for
\* a bag id the user does not own are answered 404 and change no bag; an
\* UpdateBag that succeeds on an owned bag replaces the contents of that bag
\* and changes no other bag nor the number of bags; an AddBag that succeeds
\* adds one bag, under an id no bag had, and returns that id.
C30_ItemFrame ==
    [][\A p \in Procs :
          LET r == req[p]
              after == req'[p]
              succeeds == /\ after.pc = "done" /\ after.status = StatusOK
                          /\ ~after.storeErr
          IN
          /\ (r.pc = "hasBag" /\ r.uname # "" /\ ~Owns(r.uname, r.bagID)
                  /\ after # r /\ ~after.storeErr) =>
                 /\ after.pc = "done"
                 /\ after.status = StatusNotFound
                 /\ bags' = bags
          /\ (r.pc = "updateBag" /\ succeeds /\ Owns(r.uname, r.bagID)) =>
                 /\ Cardinality(bags') = Cardinality(bags)
                 /\ \A b \in bags : b.id # r.bagID => b \in bags'
                 /\ \A b \in bags' :
                       b.id = r.bagID =>
                           b.owner = r.uname /\ b.contents = r.body
          /\ (r.pc = "addBag" /\ succeeds) =>
                 \E b \in bags' :
                     /\ bags' = bags \cup {b}
                     /\ b.id \notin { x.id : x \in bags }
                     /\ b.owner = r.uname /\ b.contents = r.body
                     /\ after.out = Marshal(Obj([id |-> Str(b.id)]))]_vars

\* C30 witness: the test user's bag-1 was updated to {"one":"two"}, the
\* request was answered 200, and the other user's bag-2 is as it was.
C30_Witness ==
    \E p \in Procs :
        /\ req[p].pc = "done" /\ req[p].h = "UpdateBag"
        /\ req[p].status = StatusOK /\ ~req[p].storeErr
        /\ call.op = "UpdateBag" /\ call.bag = BagIDText(1)
        /\ Bag(1, AddUsernameSuffix(TestUser), TxtOneTwo) \in bags
        /\ Bag(2, AddUsernameSuffix(OtherUser), TxtEmptyObj) \in bags

\* The request of slot p was answered by handleNonUser: the preferences
\* handlers and the GET and PUT/POST handlers of searches call it when isUser
\* says the user does not exist.
AnsweredByHandleNonUser(p) ==
    /\ ReturnedFrom(p, "isUser")
    /\ ~isUser(req[p].user)
    /\ \/ req[p].app = "preferences"
       \/ req[p].app = "searches" /\ req[p].h # "Delete"

\* C25: handleNonUser writes the status 400 and the body {"user":"<username>"}
\* followed by a newline, for any username.
C25_HandleNonUserIs400 ==
    \A p \in Procs :
        AnsweredByHandleNonUser(p) =>
            /\ req[p].status = StatusBadRequest
            /\ req[p].out =
                   Marshal(Obj([user |-> Str(req[p].user)])) \o "\n"

\* C26: for an existing user a PUT/POST of a valid JSON body v that succeeds
\* answers {"saved_searches": v} and stores the body as it was sent, and a
\* GET that follows answers 200 with exactly the stored text.
C26_SearchesRoundTrip ==
    \A p \in Procs :
        LET r == req[p]
            stored == lastWrite["searches"][r.user]
        IN
        (r.pc = "done" /\ r.app = "searches" /\ ~r.storeErr
             /\ isUser(r.user) /\ stored # "") =>
            /\ r.from = "upsert" =>
                  /\ r.status = StatusOK
                  /\ r.out = Marshal(Obj([saved_searches |-> Decode(r.body).v]))
                  /\ stored = r.body
                  /\ OnlyRowIs("searches", r.user, r.body)
            /\ (r.h = "Get" /\ r.from = "fetch") =>
                  /\ r.status = StatusOK
                  /\ r.out = stored

Steps == {"idle", "isUser", "hasRecord", "fetch", "upsert", "refetch",
          "delete", "done", "getUser", "hasBag", "getBag", "addBag",
          "deleteAll", "updateBag", "deleteBag", "hasBags", "getDefault",
          "updateDefault", "deleteDefault"}

TypeOK ==
    /\ users \subseteq Usernames \cup BagOwners
    /\ focus \in Apps \cup {"bags", "bagsapi"}
    /\ \A d \in defaults : d.user \in BagOwners
    /\ call.err \in BOOLEAN
    /\ \A b \in bags : b.owner \in BagOwners /\ b.contents \in Texts
    /\ nreq \in 0 .. (IF focus = "bagsapi" THEN MaxCalls ELSE MaxSeqReqs)
    /\ \A app \in Apps, u \in Usernames :
          /\ BagToSet(tbl[app][u]) \subseteq Texts
          /\ lastWrite[app][u] \in Texts
          /\ app # focus => RowCount(app, u) = 0
    /\ \A p \in Procs :
          /\ req[p].pc \in Steps
          /\ req[p].from \in Steps \cup {""}
          /\ req[p].app \in Apps \cup {"", "bags"}
          /\ req[p].method \in Methods \cup {""}
          /\ req[p].h \in {"", "Get", "Post", "Delete"} \cup BagHandlers
                             \cup ItemHandlers \cup DefaultHandlers
          /\ req[p].status \in {0, StatusOK, StatusBadRequest, StatusNotFound,
                                StatusInternalServerError}
          /\ req[p].panicked => req[p].status = 0
    /\ cv.phase \in {"off", "input", "first", "again"}
====
